---------------------------- MODULE Spec2Model ----------------------------
(***************************************************************************)
(* Dialect translation core of the gateway: the smart router of the two    *)
(* channel adaptors (relay/channel/claude, relay/channel/openai_responses),*)
(* the response dispatch, the three streaming reverse translators and the  *)
(* three non-streaming reverse translators, with their usage accounting.   *)
(*                                                                         *)
(* One behaviour is one inbound request.  Three specifications share the   *)
(* variables and the actions:                                              *)
(*   Spec          the whole life of a request: router, DoResponse, the    *)
(*                 dispatched handler;                                     *)
(*   SpecStream    a stream handler invoked on an arbitrary backend        *)
(*                 stream over the frame alphabet StreamFrames;            *)
(*   SpecScenario  a stream handler invoked on streams made of the five    *)
(*                 events of the documented streaming scenario.            *)
(***************************************************************************)
EXTENDS Integers, Sequences, FiniteSets, TLC

VARIABLES
    pc,               \* position of the request: "route", "respond", "aborted", "streaming", "done"
    adaptor,          \* the channel adaptor serving the request
    entry,            \* the router method the relay calls on it
    RequestMode,      \* claude Adaptor.RequestMode
    request,          \* the caller's request object
    info,             \* relaycommon.RelayInfo fields the core reads and writes
    ctx,              \* the gin context's key/value bag
    converted,        \* what the router returned: [body, err]
    handler,          \* the response handler DoResponse dispatched
    responseID,       \* stream handler local: responseID
    messageStartSent, \* stream handler local: messageStartSent
    responseText,     \* stream handler local: responseTextBuilder / ResponseText
    usage,            \* stream handler local: the running usage counter
    consumed,         \* the backend frames the scanner has delivered so far
    emitted,          \* the frames written to the caller so far
    body,             \* the backend response body: "nil", "open" or "closed"
    build,            \* which of the two definitions of convert.go is compiled in
    ret               \* what the handler returned: [usage, err]

vars == <<pc, adaptor, entry, RequestMode, request, info, ctx, converted, handler,
          responseID, messageStartSent, responseText, usage, consumed, emitted,
          body, build, ret>>

streamVars == <<responseID, messageStartSent, responseText, usage, consumed, emitted>>

routeVars == <<adaptor, entry, RequestMode, request, info, ctx, converted, build>>

---------------------------------------------------------------------------
\* Bounds of the model.

\* longest backend stream of SpecStream
MaxFrames == 3

\* longest backend stream of SpecScenario (the documented scenario has five events)
MaxScenarioLen == 5

\* longest backend stream of Spec, where the stream follows the routing
MaxLifeFrames == 2

\* longest backend stream of SpecEvents
MaxEventFrames == 3

\* longest message list of SpecTranslate
MaxMessages == 2

\* longest text of SpecText
MaxTextLen == 3

---------------------------------------------------------------------------
\* Program constants.

RequestModeCompletion == 1

RequestModeMessage == 2

RelayModeChatCompletions == "RelayModeChatCompletions"

RelayModeResponses == "RelayModeResponses"

\* a relay mode the Responses channel does not serve
RelayModeEmbeddings == "RelayModeEmbeddings"

ChatStream == "openai_responses.ResponsesToChatStreamHandler"

OrcStream == "openai_responses.ResponsesToClaudeStreamHandler"

ClcStream == "claude.ResponsesToClaudeStreamHandler"

ChatBody == "openai_responses.ResponsesToChatHandler"

OrcBody == "openai_responses.ResponsesToClaudeHandler"

ClcBody == "claude.ResponsesToClaudeHandler"

StreamHandlers == {ChatStream, OrcStream, ClcStream}

BodyHandlers == {ChatBody, OrcBody, ClcBody}

NativeHandlers ==
    {"claude.ClaudeStreamHandler", "claude.ClaudeHandler",
     "openai.OaiResponsesStreamHandler", "openai.OaiResponsesHandler"}

---------------------------------------------------------------------------
\* dto values.

\* a nil *dto.Usage
NoUsage ==
    [present |-> FALSE, InputTokens |-> 0, OutputTokens |-> 0, TotalTokens |-> 0,
     PromptTokens |-> 0, CompletionTokens |-> 0]

\* a backend usage object: the Responses dialect reports input_tokens,
\* output_tokens and total_tokens; prompt_tokens / completion_tokens are the
\* other JSON keys of the same dto.Usage struct
BackendUsage(in, out, total) ==
    [present |-> TRUE, InputTokens |-> in, OutputTokens |-> out, TotalTokens |-> total,
     PromptTokens |-> 0, CompletionTokens |-> 0]

\* dto.Usage{} as the handlers build it
ZeroUsage ==
    [present |-> TRUE, InputTokens |-> 0, OutputTokens |-> 0, TotalTokens |-> 0,
     PromptTokens |-> 0, CompletionTokens |-> 0]

\* dto.ClaudeUsage{InputTokens, OutputTokens}
ClaudeUsage(in, out) ==
    [present |-> TRUE, InputTokens |-> in, OutputTokens |-> out, TotalTokens |-> 0,
     PromptTokens |-> 0, CompletionTokens |-> 0]

\* a nil response snapshot
NoResponse == [present |-> FALSE, ID |-> "", Status |-> "", Usage |-> NoUsage]

ResponseSnap(id, status, u) == [present |-> TRUE, ID |-> id, Status |-> status, Usage |-> u]

\* a nil item snapshot
NoItem == [present |-> FALSE, Role |-> "", Type |-> ""]

ItemSnap(role, type) == [present |-> TRUE, Role |-> role, Type |-> type]

\* one backend SSE frame as common.UnmarshalJsonStr decodes it into
\* dto.ResponsesStreamResponse; ok = FALSE is a frame that fails to parse
Event(type, resp, item, delta) ==
    [ok |-> TRUE, Type |-> type, Response |-> resp, Item |-> item, Delta |-> delta]

MalformedFrame ==
    [ok |-> FALSE, Type |-> "", Response |-> NoResponse, Item |-> NoItem, Delta |-> ""]

\* one frame written to the caller
Frame(type, id, role, index, text, reason, u) ==
    [type |-> type, id |-> id, role |-> role, index |-> index, text |-> text,
     reason |-> reason, usage |-> u, error |-> "none"]

\* a frame field that is absent from the JSON body
NoIndex == 0 - 1

---------------------------------------------------------------------------
\* External collaborators.

\* service.CountTextToken(text, model): the tokenizer's count for a text.  The
\* tokenizer is an opaque service; it is modelled as one token per started
\* group of four characters, which is zero exactly for the empty text.
CountTextToken(text, model) == (Len(text) + 3) \div 4

---------------------------------------------------------------------------
\* Status mappings.

\* the mapping with the incomplete case left to the default
extractFinishReason_IncompleteStops(status) ==
    CASE status = "failed" -> "error"
      [] OTHER -> "stop"

\* convert.go, extractFinishReason (Chat target)
extractFinishReason(status) ==
    CASE status = "completed" -> "stop"
      [] status = "incomplete" -> "length"
      [] status = "failed" -> "error"
      [] status = "cancelled" -> "stop"
      [] OTHER -> "stop"

\* convert_responses.go, extractFinishReasonFromResponses (claude package)
extractFinishReasonFromResponses(status) ==
    CASE status = "completed" -> "stop"
      [] status = "incomplete" -> "length"
      [] status = "failed" -> "error"
      [] status = "cancelled" -> "stop"
      [] OTHER -> "stop"

\* claude_handler.go, extractClaudeStopReason (openai_responses package)
extractClaudeStopReason(status) ==
    CASE status = "completed" -> "end_turn"
      [] status = "incomplete" -> "max_tokens"
      [] OTHER -> "end_turn"

---------------------------------------------------------------------------
\* openai_responses.ResponsesToClaudeStreamHandler (claude_handler.go): the
\* scanner callback, piece by piece.

\* lines 126-128: the response id is taken from any frame that carries one
OrcResponseID(id, f) ==
    IF f.Response.present /\ f.Response.ID # "" THEN f.Response.ID ELSE id

sendClaudeMessageStart ==
    Frame("message_start", "", "assistant", NoIndex, "", "", ClaudeUsage(0, 0))

sendClaudeContentBlockStart(index) ==
    Frame("content_block_start", "", "", index, "", "", NoUsage)

sendClaudeContentBlockDelta(index, delta) ==
    Frame("content_block_delta", "", "", index, delta, "", NoUsage)

sendClaudeContentBlockStop(index) ==
    Frame("content_block_stop", "", "", index, "", "", NoUsage)

sendClaudeMessageDelta(stopReason, u) ==
    Frame("message_delta", "", "", NoIndex, "", stopReason,
          ClaudeUsage(0, IF u.present THEN u.OutputTokens ELSE 0))

sendClaudeMessageStop ==
    Frame("message_stop", "", "", NoIndex, "", "", NoUsage)

\* lines 131-137: message_start and content_block_start, once, as soon as a
\* response id is known
OrcStartFrames(sent, id) ==
    IF ~sent /\ id # ""
        THEN <<sendClaudeMessageStart, sendClaudeContentBlockStart(0)>>
        ELSE <<>>

\* lines 140-144: a non-empty text delta
OrcIsDelta(f) == f.Type = "response.output_text.delta" /\ f.Delta # ""

OrcDeltaFrames(f) ==
    IF OrcIsDelta(f) THEN <<sendClaudeContentBlockDelta(0, f.Delta)>> ELSE <<>>

\* line 147: the terminal event the handler recognises
OrcIsTerminal(f) == f.Type = "response.done" /\ f.Response.present

\* lines 148-153: the closing triple, with the stop reason written in the code
OrcTerminalFrames(f) ==
    IF OrcIsTerminal(f)
        THEN <<sendClaudeContentBlockStop(0),
               sendClaudeMessageDelta("end_turn", f.Response.Usage),
               sendClaudeMessageStop>>
        ELSE <<>>

\* lines 156-166: the terminal event's usage, non-zero fields only
OrcCaptureUsage(u, f) ==
    IF OrcIsTerminal(f) /\ f.Response.Usage.present
        THEN [u EXCEPT
                !.PromptTokens = IF f.Response.Usage.InputTokens # 0
                                     THEN f.Response.Usage.InputTokens ELSE @,
                !.CompletionTokens = IF f.Response.Usage.OutputTokens # 0
                                         THEN f.Response.Usage.OutputTokens ELSE @,
                !.TotalTokens = IF f.Response.Usage.TotalTokens # 0
                                    THEN f.Response.Usage.TotalTokens ELSE @]
        ELSE u

\* the code after the loop without the tokenizer fallback
OrcReconcile_NoTokenizer(u, text, promptTokens, model) ==
    LET completion == u.CompletionTokens
        prompt == IF u.PromptTokens = 0 /\ completion # 0
                      THEN promptTokens
                      ELSE u.PromptTokens
    IN  [u EXCEPT !.PromptTokens = prompt,
                  !.CompletionTokens = completion,
                  !.TotalTokens = prompt + completion]

\* lines 177-192: the code after the scanner loop
OrcReconcile(u, text, promptTokens, model) ==
    LET completion == IF u.CompletionTokens = 0 /\ Len(text) > 0
                          THEN CountTextToken(text, model)
                          ELSE u.CompletionTokens
        prompt == IF u.PromptTokens = 0 /\ completion # 0
                      THEN promptTokens
                      ELSE u.PromptTokens
    IN  [u EXCEPT !.PromptTokens = prompt,
                  !.CompletionTokens = completion,
                  !.TotalTokens = prompt + completion]

---------------------------------------------------------------------------
\* claude.ResponsesToClaudeStreamHandler (convert_responses.go).

\* lines 530-615: the frame one backend event converts to, as a sequence of
\* at most one frame (the empty sequence is the nil result)
ConvertResponsesStreamToClaudeStream(f) ==
    CASE f.Type = "response.created" /\ f.Response.present ->
             <<Frame("message_start", f.Response.ID, "assistant", NoIndex, "", "",
                     IF f.Response.Usage.present
                         THEN ClaudeUsage(f.Response.Usage.InputTokens,
                                          f.Response.Usage.OutputTokens)
                         ELSE NoUsage)>>
      [] f.Type = "response.output_item.added" /\ f.Item.present
           /\ f.Item.Role = "assistant" ->
             <<Frame("content_block_start", "", "", 0, "", "", NoUsage)>>
      [] f.Type \in {"response.output_text.delta", "response.content_part.delta"}
           /\ f.Delta # "" ->
             <<Frame("content_block_delta", "", "", 0, f.Delta, "", NoUsage)>>
      [] f.Type = "response.output_item.done" ->
             <<Frame("content_block_stop", "", "", 0, "", "", NoUsage)>>
      [] f.Type \in {"response.done", "response.completed"} /\ f.Response.present ->
             <<Frame("message_delta", "", "", NoIndex, "",
                     extractFinishReasonFromResponses(f.Response.Status),
                     IF f.Response.Usage.present
                         THEN ClaudeUsage(f.Response.Usage.InputTokens,
                                          f.Response.Usage.OutputTokens)
                         ELSE NoUsage)>>
      [] OTHER -> <<>>

\* lines 400-411: the usage of a response.done event, non-zero fields only
ClcCaptureUsage(u, f) ==
    IF f.Type = "response.done" /\ f.Response.present /\ f.Response.Usage.present
        THEN [u EXCEPT
                !.PromptTokens = IF f.Response.Usage.InputTokens # 0
                                     THEN f.Response.Usage.InputTokens ELSE @,
                !.CompletionTokens = IF f.Response.Usage.OutputTokens # 0
                                         THEN f.Response.Usage.OutputTokens ELSE @,
                !.TotalTokens = IF f.Response.Usage.TotalTokens # 0
                                    THEN f.Response.Usage.TotalTokens ELSE @]
        ELSE u

\* the accumulation without the case label: any event's delta is kept
ClcAccumulate_AnyDelta(text, f) == text \o f.Delta

\* lines 412-414: the text kept for the fallback token count
ClcAccumulate(text, f) ==
    IF f.Type = "response.output_text.delta" THEN text \o f.Delta ELSE text

\* the code after the loop without the fallback to the request's prompt tokens
ClcReconcile_NoPromptFallback(u, text, promptTokens, model) ==
    LET completion == IF u.CompletionTokens = 0 /\ Len(text) > 0
                          THEN CountTextToken(text, model)
                          ELSE u.CompletionTokens
        prompt == u.PromptTokens
    IN  [u EXCEPT !.PromptTokens = prompt,
                  !.CompletionTokens = completion,
                  !.TotalTokens = prompt + completion]

\* lines 425-440: the code after the scanner loop
ClcReconcile(u, text, promptTokens, model) ==
    LET completion == IF u.CompletionTokens = 0 /\ Len(text) > 0
                          THEN CountTextToken(text, model)
                          ELSE u.CompletionTokens
        prompt == IF u.PromptTokens = 0 /\ completion # 0
                      THEN promptTokens
                      ELSE u.PromptTokens
    IN  [u EXCEPT !.PromptTokens = prompt,
                  !.CompletionTokens = completion,
                  !.TotalTokens = prompt + completion]

---------------------------------------------------------------------------
\* openai_responses.ResponsesToChatStreamHandler (the handler file) with
\* ConvertResponsesStreamToChatStream (convert.go, the first definition).

\* the handler, lines 370-372
ChatResponseID(id, f) ==
    IF f.Response.present /\ f.Response.ID # "" THEN f.Response.ID ELSE id

\* convert.go lines 359-441: the chunk one backend event converts to, as a
\* sequence of at most one chunk
ConvertResponsesStreamToChatStream(f, id) ==
    LET currentID == IF f.Response.present /\ f.Response.ID # ""
                         THEN f.Response.ID ELSE id
    IN  CASE f.Type = "response.output_text.delta" /\ f.Delta # "" ->
                 <<Frame("chat.completion.chunk", currentID, "", 0, f.Delta, "", NoUsage)>>
          [] f.Type = "response.output_item.added" /\ f.Item.present
               /\ f.Item.Role = "assistant" ->
                 <<Frame("chat.completion.chunk", currentID, "assistant", 0, "", "",
                         NoUsage)>>
          [] f.Type = "response.done" /\ f.Response.present ->
                 <<Frame("chat.completion.chunk", currentID, "", 0, "",
                         extractFinishReason(f.Response.Status), f.Response.Usage)>>
          [] OTHER -> <<>>

\* convert.go lines 720-802, the second definition of the same function: the
\* text delta it converts is response.content_part.delta
ConvertResponsesStreamToChatStream2(f, id) ==
    LET currentID == IF f.Response.present /\ f.Response.ID # ""
                         THEN f.Response.ID ELSE id
    IN  CASE f.Type = "response.content_part.delta" /\ f.Delta # "" ->
                 <<Frame("chat.completion.chunk", currentID, "", 0, f.Delta, "", NoUsage)>>
          [] f.Type = "response.output_item.added" /\ f.Item.present
               /\ f.Item.Role = "assistant" ->
                 <<Frame("chat.completion.chunk", currentID, "assistant", 0, "", "",
                         NoUsage)>>
          [] f.Type = "response.done" /\ f.Response.present ->
                 <<Frame("chat.completion.chunk", currentID, "", 0, "",
                         extractFinishReason(f.Response.Status), f.Response.Usage)>>
          [] OTHER -> <<>>

\* convert.go holds two package clauses (lines 1 and 442), each followed by
\* its own definition of the converters; a build compiles one of them
ConvertBuilds == {"first", "second"}

\* the handler, line 375: the call of the converter the build holds
ChatStreamChunks(b, f, id) ==
    IF b = "first"
        THEN ConvertResponsesStreamToChatStream(f, id)
        ELSE ConvertResponsesStreamToChatStream2(f, id)

\* only the Chat handlers and the package's non-streaming Messages handler
\* (through extractContentFromOutput) call a function that differs between
\* the two definitions
BuildsFor(h) ==
    IF h \in {ChatStream, ChatBody, OrcBody} THEN ConvertBuilds ELSE {"first"}

\* the handler, lines 383-399: the usage of a response.completed event
ChatCaptureUsage(u, f) ==
    IF f.Type = "response.completed" /\ f.Response.present /\ f.Response.Usage.present
        THEN [u EXCEPT
                !.PromptTokens = IF f.Response.Usage.InputTokens # 0
                                     THEN f.Response.Usage.InputTokens ELSE @,
                !.CompletionTokens = IF f.Response.Usage.OutputTokens # 0
                                         THEN f.Response.Usage.OutputTokens ELSE @,
                !.TotalTokens = IF f.Response.Usage.TotalTokens # 0
                                    THEN f.Response.Usage.TotalTokens ELSE @]
        ELSE u

\* info.ResponsesUsageInfo.BuiltInTools: whether the map is there, and for a
\* tool type whether a counter is registered under it and its CallCount
NoBuiltInTools ==
    [present |-> FALSE,
     web_search_preview |-> [registered |-> FALSE, CallCount |-> 0],
     file_search |-> [registered |-> FALSE, CallCount |-> 0]]

\* the maps a request with built-in tools comes with
RegisteredTools ==
    {NoBuiltInTools,
     [NoBuiltInTools EXCEPT !.present = TRUE, !.file_search.registered = TRUE],
     [NoBuiltInTools EXCEPT !.present = TRUE, !.file_search.registered = TRUE,
                            !.web_search_preview.registered = TRUE]}

\* a counting that takes every finished output item for a web search call
ChatCountToolCall_AnyItem(tools, f) ==
    IF f.Type = "response.output_item.done" /\ f.Item.present
         /\ tools.present /\ tools.web_search_preview.registered
        THEN [tools EXCEPT !.web_search_preview.CallCount = @ + 1]
        ELSE tools

\* the handler, lines 403-415: a finished web_search_call item counts one call
\* of the web_search_preview tool when a counter is registered for it
ChatCountToolCall(tools, f) ==
    IF f.Type = "response.output_item.done" /\ f.Item.present
         /\ f.Item.Type = "web_search_call"
         /\ tools.present /\ tools.web_search_preview.registered
        THEN [tools EXCEPT !.web_search_preview.CallCount = @ + 1]
        ELSE tools

\* the handler, lines 400-402
ChatAccumulate(text, f) ==
    IF f.Type = "response.output_text.delta" THEN text \o f.Delta ELSE text

\* the code after the loop without its last assignment: the total stays the
\* one the backend reported
ChatReconcile_KeepsBackendTotal(u, text, promptTokens, model) ==
    LET completion == IF u.CompletionTokens = 0 /\ Len(text) > 0
                          THEN CountTextToken(text, model)
                          ELSE u.CompletionTokens
        prompt == IF u.PromptTokens = 0 /\ completion # 0
                      THEN promptTokens
                      ELSE u.PromptTokens
    IN  [u EXCEPT !.PromptTokens = prompt, !.CompletionTokens = completion]

\* the handler, lines 425-440: the code after the scanner loop
ChatReconcile(u, text, promptTokens, model) ==
    LET completion == IF u.CompletionTokens = 0 /\ Len(text) > 0
                          THEN CountTextToken(text, model)
                          ELSE u.CompletionTokens
        prompt == IF u.PromptTokens = 0 /\ completion # 0
                      THEN promptTokens
                      ELSE u.PromptTokens
    IN  [u EXCEPT !.PromptTokens = prompt,
                  !.CompletionTokens = completion,
                  !.TotalTokens = prompt + completion]

---------------------------------------------------------------------------
\* Backend frames.

EvCreated ==
    Event("response.created", ResponseSnap("resp_1", "in_progress", NoUsage), NoItem, "")

EvItemAdded ==
    Event("response.output_item.added", NoResponse, ItemSnap("assistant", "message"), "")

EvDeltaHi == Event("response.output_text.delta", NoResponse, NoItem, "Hi")

EvDeltaThere == Event("response.output_text.delta", NoResponse, NoItem, " there")

\* response.done(status=completed, usage input=5 output=2)
EvDone ==
    Event("response.done", ResponseSnap("resp_1", "completed", BackendUsage(5, 2, 7)),
          NoItem, "")

\* a response.completed event whose total is not input + output
EvCompleted ==
    Event("response.completed", ResponseSnap("resp_1", "incomplete", BackendUsage(5, 2, 9)),
          NoItem, "")

\* a terminal event without a usage object
EvDoneNoUsage ==
    Event("response.done", ResponseSnap("resp_1", "failed", NoUsage), NoItem, "")

\* terminal events that report only the output tokens
EvDoneOutputOnly ==
    Event("response.done", ResponseSnap("", "completed", BackendUsage(0, 3, 3)), NoItem, "")

EvCompletedOutputOnly ==
    Event("response.completed", ResponseSnap("", "completed", BackendUsage(0, 3, 3)),
          NoItem, "")

\* a terminal event without a response snapshot
EvDoneNoResponse == Event("response.done", NoResponse, NoItem, "")

\* a text delta under the other event name the converters know
EvPartDelta == Event("response.content_part.delta", NoResponse, NoItem, "Hi")

\* a text delta event whose delta is empty
EvEmptyDelta == Event("response.output_text.delta", NoResponse, NoItem, "")

EvItemDone ==
    Event("response.output_item.done", NoResponse, ItemSnap("assistant", "message"), "")

\* events of types no converter names: one carrying a delta string, one
\* carrying a response snapshot with the response id
EvReasoningDelta ==
    Event("response.reasoning_summary_text.delta", NoResponse, NoItem, "Hi")

EvInProgress ==
    Event("response.in_progress", ResponseSnap("resp_1", "in_progress", NoUsage), NoItem, "")

\* a frame that fails to parse after some of its fields were decoded
MalformedDelta ==
    [ok |-> FALSE, Type |-> "response.output_text.delta", Response |-> NoResponse,
     Item |-> NoItem, Delta |-> "Hi"]

\* response.done with each of the remaining statuses
EvDoneIncomplete ==
    Event("response.done", ResponseSnap("resp_1", "incomplete", NoUsage), NoItem, "")

EvDoneCancelled ==
    Event("response.done", ResponseSnap("resp_1", "cancelled", NoUsage), NoItem, "")

EvDoneQueued ==
    Event("response.done", ResponseSnap("resp_1", "queued", NoUsage), NoItem, "")

\* every event shape the callbacks distinguish
EventFrames ==
    {EvCreated, EvItemAdded, EvDeltaHi, EvPartDelta, EvEmptyDelta, EvItemDone,
     EvReasoningDelta, EvInProgress, MalformedFrame, MalformedDelta, EvDone, EvCompleted,
     EvDoneNoUsage, EvDoneIncomplete, EvDoneCancelled, EvDoneQueued}

\* the events of a finished built-in tool call, a web search and a file
\* search: only the Chat stream handler reads the type of a finished item,
\* for the other handlers these events are EvItemDone
ToolCallFrames ==
    {Event("response.output_item.done", NoResponse, ItemSnap("", "web_search_call"), ""),
     Event("response.output_item.done", NoResponse, ItemSnap("", "file_search_call"), "")}

\* the five events of the documented streaming scenario, in order
Scenario == <<EvCreated, EvItemAdded, EvDeltaHi, EvDeltaThere, EvDone>>

ScenarioFrames == {Scenario[i] : i \in 1..Len(Scenario)}

StreamFrames ==
    {EvCreated, EvItemAdded, EvDeltaHi, EvDone, EvCompleted, EvDoneNoUsage,
     EvDoneOutputOnly, EvCompletedOutputOnly, EvDoneNoResponse, MalformedFrame}

\* the frames of a stream that follows the routing
LifeFrames == {EvCreated, EvDeltaHi, EvDone, EvCompleted}

\* info.PromptTokens: the prompt-token count of the original request
PromptTokenChoices == {0, 4}

---------------------------------------------------------------------------
\* The scanner callbacks: helper.StreamScannerHandler delivers one backend
\* frame at a time; F is the alphabet the backend draws from and L the
\* longest stream.

\* a parser that accepts every frame
Parsed_Always(f) == TRUE

\* common.UnmarshalJsonStr(data, &streamResponse) returned no error
Parsed(f) == f.ok

\* a writer that puts what it is given in front of what was written
WriteFrames_Prepends(written, frames) == frames \o written

\* the send helpers write a frame to the caller's writer and flush it before
\* they return: the frames of one callback follow everything written before
WriteFrames(written, frames) == written \o frames

\* the calls a send helper makes on the caller's writer for one frame:
\* sendClaudeStreamData of openai_responses (claude_handler.go lines 340-342)
\* writes an event line, a data line and flushes; sendClaudeStreamData of the
\* claude package (convert_responses.go lines 633-635) and sendChatStreamData
\* (lines 452-454 of its file) write a data line and flush
sendStreamData(h, frame) ==
    IF h = OrcStream
        THEN <<[call |-> "WriteString", line |-> "event", of |-> frame.type],
               [call |-> "WriteString", line |-> "data", of |-> frame],
               [call |-> "Flush", line |-> "", of |-> ""]>>
        ELSE <<[call |-> "Write", line |-> "data", of |-> frame],
               [call |-> "Flush", line |-> "", of |-> ""]>>

\* a deferred call that leaves the body as it found it
CloseResponseBodyGracefully_Leaks(b) == b

\* service.CloseResponseBodyGracefully(resp), the call each handler defers
CloseResponseBodyGracefully(b) == "closed"

\* openai_responses.ResponsesToClaudeStreamHandler, lines 117-172
OrcOnFrame(F, L) ==
    /\ pc = "streaming"
    /\ handler = OrcStream
    /\ Len(consumed) < L
    /\ \E f \in F :
         /\ consumed' = Append(consumed, f)
         /\ IF Parsed(f)
              THEN LET id == OrcResponseID(responseID, f)
                   IN  /\ responseID' = id
                       /\ messageStartSent' = (messageStartSent \/ id # "")
                       /\ emitted' = WriteFrames(emitted,
                                                 OrcStartFrames(messageStartSent, id)
                                                     \o OrcDeltaFrames(f)
                                                     \o OrcTerminalFrames(f))
                       /\ responseText' = IF OrcIsDelta(f)
                                              THEN responseText \o f.Delta
                                              ELSE responseText
                       /\ usage' = OrcCaptureUsage(usage, f)
              ELSE UNCHANGED <<responseID, messageStartSent, emitted, responseText, usage>>
    /\ UNCHANGED <<pc, handler, body, ret, routeVars>>

\* claude.ResponsesToClaudeStreamHandler, lines 381-420
ClcOnFrame(F, L) ==
    /\ pc = "streaming"
    /\ handler = ClcStream
    /\ Len(consumed) < L
    /\ \E f \in F :
         /\ consumed' = Append(consumed, f)
         /\ IF Parsed(f)
              THEN /\ emitted' = WriteFrames(emitted, ConvertResponsesStreamToClaudeStream(f))
                   /\ usage' = ClcCaptureUsage(usage, f)
                   /\ responseText' = ClcAccumulate(responseText, f)
              ELSE UNCHANGED <<emitted, usage, responseText>>
    /\ UNCHANGED <<pc, handler, body, ret, responseID, messageStartSent, routeVars>>

\* openai_responses.ResponsesToChatStreamHandler, lines 359-420 of its file
ChatOnFrame(F, L) ==
    /\ pc = "streaming"
    /\ handler = ChatStream
    /\ Len(consumed) < L
    /\ \E f \in F :
         /\ consumed' = Append(consumed, f)
         /\ IF Parsed(f)
              THEN LET id == ChatResponseID(responseID, f)
                   IN  /\ responseID' = id
                       /\ emitted' = WriteFrames(emitted, ChatStreamChunks(build, f, id))
                       /\ usage' = ChatCaptureUsage(usage, f)
                       /\ responseText' = ChatAccumulate(responseText, f)
                       /\ info' = [info EXCEPT
                                     !.BuiltInTools = ChatCountToolCall(@, f)]
              ELSE UNCHANGED <<responseID, emitted, usage, responseText, info>>
    /\ UNCHANGED <<pc, handler, body, ret, messageStartSent>>
    /\ UNCHANGED <<adaptor, entry, RequestMode, request, ctx, converted, build>>

\* The scanner returns (the backend closed the stream, with or without a
\* terminal event) and the handler runs the code after the loop, closes the
\* body (the deferred call) and returns the usage.  The variable usage keeps
\* the counter as the loop left it; ret.usage is the value returned.
OrcEnd ==
    /\ pc = "streaming"
    /\ handler = OrcStream
    /\ ret' = [usage |-> OrcReconcile(usage, responseText, info.PromptTokens,
                                      info.UpstreamModelName),
               err |-> "none"]
    /\ body' = CloseResponseBodyGracefully(body)
    /\ pc' = "done"
    /\ UNCHANGED <<handler, streamVars, routeVars>>

ClcEnd ==
    /\ pc = "streaming"
    /\ handler = ClcStream
    /\ ret' = [usage |-> ClcReconcile(usage, responseText, info.PromptTokens,
                                      info.UpstreamModelName),
               err |-> "none"]
    /\ body' = CloseResponseBodyGracefully(body)
    /\ pc' = "done"
    /\ UNCHANGED <<handler, streamVars, routeVars>>

ChatEnd ==
    /\ pc = "streaming"
    /\ handler = ChatStream
    /\ ret' = [usage |-> ChatReconcile(usage, responseText, info.PromptTokens,
                                       info.UpstreamModelName),
               err |-> "none"]
    /\ body' = CloseResponseBodyGracefully(body)
    /\ pc' = "done"
    /\ UNCHANGED <<handler, streamVars, routeVars>>

---------------------------------------------------------------------------
\* A stream handler invoked directly: the state DoResponse leaves when it
\* dispatches the handler for a translated streaming request.

NoReturn == [usage |-> NoUsage, err |-> "pending"]

InitStream ==
    /\ pc = "streaming"
    /\ handler \in StreamHandlers
    /\ adaptor = IF handler = ClcStream THEN "claude" ELSE "openai_responses"
    /\ entry = IF handler = OrcStream THEN "ConvertClaudeRequest" ELSE "ConvertOpenAIRequest"
    /\ RequestMode = RequestModeMessage
    /\ request = [nil |-> FALSE, Model |-> "claude-3-opus", encodable |-> TRUE,
                  nativeOk |-> TRUE]
    /\ \E p \in PromptTokenChoices :
           info = [OriginModelName |-> "claude-3-opus", UpstreamModelName |-> "claude-3-opus",
                   RelayMode |-> RelayModeResponses, IsStream |-> TRUE, PromptTokens |-> p,
                   BuiltInTools |-> NoBuiltInTools]
    /\ ctx = [converted_from_claude |-> IF handler = ChatStream THEN "unset" ELSE "true",
              converted_from_chat |-> IF handler = ChatStream THEN "true" ELSE "unset",
              original_claude_request |->
                  CASE handler = ClcStream -> "*dto.GeneralOpenAIRequest"
                    [] handler = OrcStream -> "*dto.ClaudeRequest"
                    [] OTHER -> "unset",
              original_chat_request |->
                  IF handler = ChatStream THEN "*dto.GeneralOpenAIRequest" ELSE "unset"]
    /\ converted = [body |-> "responses_request", err |-> "none"]
    /\ build \in BuildsFor(handler)
    /\ responseID = ""
    /\ messageStartSent = FALSE
    /\ responseText = ""
    /\ usage = ZeroUsage
    /\ consumed = <<>>
    /\ emitted = <<>>
    /\ body = "open"
    /\ ret = NoReturn

NextStream ==
    \/ OrcOnFrame(StreamFrames, MaxFrames)
    \/ ClcOnFrame(StreamFrames, MaxFrames)
    \/ ChatOnFrame(StreamFrames, MaxFrames)
    \/ OrcEnd
    \/ ClcEnd
    \/ ChatEnd

SpecStream == InitStream /\ [][NextStream]_vars

NextScenario ==
    \/ OrcOnFrame(ScenarioFrames, MaxScenarioLen)
    \/ ClcOnFrame(ScenarioFrames, MaxScenarioLen)
    \/ ChatOnFrame(ScenarioFrames, MaxScenarioLen)
    \/ OrcEnd
    \/ ClcEnd
    \/ ChatEnd

SpecScenario == InitStream /\ [][NextScenario]_vars

\* the backend closes its stream, or the caller goes away, at some point: the
\* scanner loop of a stream handler ends
SpecStreamFair == SpecStream /\ WF_vars(OrcEnd \/ ClcEnd \/ ChatEnd)

---------------------------------------------------------------------------
\* Text.  A Go string is modelled as the sequence of the elements a decoder
\* finds in it: "a" is an ordinary character, "LF" one of CR, LF and TAB,
\* "BEL" any other control character, "FFFD" the character U+FFFD itself and
\* "BAD" a byte that is not part of a valid UTF-8 encoding.

Runes == {"a", "LF", "BEL", "BAD", "FFFD"}

\* for _, r := range s: the rune the loop sees for one element; Go decodes an
\* invalid byte to utf8.RuneError, which is U+FFFD
DecodeRune(ch) == IF ch = "BAD" THEN "FFFD" ELSE ch

\* !utf8.ValidRune(r) || (unicode.IsControl(r) && !strings.ContainsRune("\r\n\t", r)):
\* U+FFFD is a valid rune, and so is every rune a range loop yields
SkippedRune(r) == r = "BAD" \/ r = "BEL"

\* utf8.ValidString(s)
ValidString(s) == \A i \in 1..Len(s) : s[i] # "BAD"

\* openai_responses.isValidUTF8String, convert.go lines 16-27
isValidUTF8String(s) ==
    /\ \A i \in 1..Len(s) : ~SkippedRune(DecodeRune(s[i]))
    /\ ValidString(s)

\* claude.isValidUTF8String, convert_responses.go lines 24-26
ClcIsValidUTF8String(s) == ValidString(s)

RECURSIVE cleanInvalidUTF8Chars(_)
\* cleanInvalidUTF8Chars, the same in both packages (convert.go lines 35-53,
\* convert_responses.go lines 34-52): the runes of the loop that are written
cleanInvalidUTF8Chars(s) ==
    IF s = <<>>
        THEN <<>>
        ELSE (IF SkippedRune(DecodeRune(Head(s))) THEN <<>> ELSE <<DecodeRune(Head(s))>>)
                 \o cleanInvalidUTF8Chars(Tail(s))

---------------------------------------------------------------------------
\* Request translators.  A source request is [nil, Model, encodable,
\* nativeOk, System, Messages]: encodable = FALSE stands for a request whose
\* tools or tool_choice json.Marshal fails, System is the system field of a
\* dto.ClaudeRequest and Messages the message list.

\* a value of a dynamically typed content field (dto.Message.Content,
\* dto.ClaudeMessage.Content, dto.ClaudeRequest.System) and of the JSON it
\* encodes to: kind is "nil" (no value), "null", "string" (text), "array"
\* (blocks) or "unencodable" (a structured value json.Marshal fails on)
Content(kind, text, blocks) == [kind |-> kind, text |-> text, blocks |-> blocks]

\* one element of a content array: a JSON object with its type field and the
\* rest of its fields (data), or, with map = FALSE, an element that is not an
\* object
Block(map, type, data) == [map |-> map, type |-> type, data |-> data]

\* json.Marshal of a Go string: invalid bytes are encoded as U+FFFD, control
\* characters are escaped and kept
jsonMarshalString(s) == [i \in 1..Len(s) |-> DecodeRune(s[i])]

\* a request without the instructions field
NoInstructions == [present |-> FALSE, encoding |-> "", of |-> Content("nil", <<>>, <<>>)]

NoRequest ==
    [nil |-> TRUE, Model |-> "", encodable |-> TRUE, nativeOk |-> TRUE,
     System |-> Content("nil", <<>>, <<>>), Messages |-> <<>>]

Requests ==
    {NoRequest} \cup
    [nil : {FALSE}, Model : {"", "claude-3-opus"}, encodable : BOOLEAN, nativeOk : BOOLEAN,
     System : {Content("nil", <<>>, <<>>)}, Messages : {<<>>}]

\* the text a system extractor returns: json = FALSE is the text of a plain
\* string, json = TRUE the JSON text json.Marshal produced for the value of
NoSystemMessage == [json |-> FALSE, of |-> Content("string", <<>>, <<>>)]

RECURSIVE extractSystemMessage(_)
\* openai_responses.extractSystemMessage, convert.go lines 181-196 (and the
\* same function of the second version): the first system message whose
\* content is a string or can be encoded; the string is returned as it is
extractSystemMessage(messages) ==
    IF messages = <<>>
        THEN NoSystemMessage
    ELSE LET m == Head(messages)
         IN  IF m.Role = "system" /\ m.Content.kind = "string"
                 THEN [json |-> FALSE, of |-> m.Content]
             ELSE IF m.Role = "system" /\ m.Content.kind # "unencodable"
                 THEN [json |-> TRUE,
                       of |-> IF m.Content.kind = "nil" THEN Content("null", <<>>, <<>>)
                                                        ELSE m.Content]
             ELSE extractSystemMessage(Tail(messages))

RECURSIVE extractSystemMessageFromClaude(_)
\* claude.extractSystemMessageFromClaude, convert_responses.go lines 167-192
extractSystemMessageFromClaude(messages) ==
    IF messages = <<>>
        THEN NoSystemMessage
    ELSE LET m == Head(messages)
         IN  IF m.Role = "system" /\ m.Content.kind = "string"
                 THEN [json |-> FALSE,
                       of |-> IF ClcIsValidUTF8String(m.Content.text)
                                  THEN m.Content
                                  ELSE Content("string",
                                               cleanInvalidUTF8Chars(m.Content.text), <<>>)]
             ELSE IF m.Role = "system" /\ m.Content.kind # "unencodable"
                 THEN [json |-> TRUE,
                       of |-> IF m.Content.kind = "nil" THEN Content("null", <<>>, <<>>)
                                                        ELSE m.Content]
             ELSE extractSystemMessageFromClaude(Tail(messages))

\* openai_responses.extractClaudeSystemMessage, lines 123-149 of its file:
\* [text, err]; the caller tests system != nil first
extractClaudeSystemMessage(system) ==
    CASE system.kind = "nil" -> [text |-> NoSystemMessage, err |-> "none"]
      [] system.kind = "string" ->
             [text |-> [json |-> FALSE,
                        of |-> IF isValidUTF8String(system.text)
                                   THEN system
                                   ELSE Content("string",
                                                cleanInvalidUTF8Chars(system.text), <<>>)],
              err |-> "none"]
      [] system.kind = "unencodable" ->
             [text |-> NoSystemMessage, err |-> "failed to marshal system message"]
      [] OTHER -> [text |-> [json |-> TRUE, of |-> system], err |-> "none"]

\* instructionsBytes, err := json.Marshal(systemMessage): the instructions of
\* the two Messages translators, a JSON string holding the extracted text
MarshalledInstructions(sys) ==
    IF sys = NoSystemMessage
        THEN NoInstructions
        ELSE [present |-> TRUE, encoding |-> "json_string",
              of |-> IF sys.json THEN sys.of
                                 ELSE Content("string", jsonMarshalString(sys.of.text), <<>>)]

\* the instructions of the Chat translator.  First version of convert.go,
\* lines 104-125: a system text that parses as JSON (the encoding of a
\* structured content) is used as it is, any other is encoded as a JSON
\* string; no text of the model's alphabet parses as JSON.  Second version:
\* the bytes of the system text are used as they are.
ChatInstructions(b, sys) ==
    IF sys = NoSystemMessage
        THEN NoInstructions
    ELSE IF sys.json \/ b = "second"
        THEN [present |-> TRUE, encoding |-> "raw", of |-> sys.of]
    ELSE [present |-> TRUE, encoding |-> "json_string",
          of |-> Content("string", jsonMarshalString(sys.of.text), <<>>)]

\* dto.Input{Type, Role, Content} as it is encoded
Input(type, role, content) == [Type |-> type, Role |-> role, Content |-> content]

RECURSIVE convertMessagesToInputs(_, _)
\* openai_responses.convertMessagesToInputs, convert.go lines 205-254 (first
\* version: a string content is cleaned when it is not valid) and the same
\* function of the second version, where the item type is "input" and a
\* string content is encoded as it is: [inputs, err]
convertMessagesToInputs(b, messages) ==
    IF messages = <<>>
        THEN [inputs |-> <<>>, err |-> "none"]
    ELSE LET m == Head(messages)
             rest == convertMessagesToInputs(b, Tail(messages))
             str == IF b = "first" /\ ~isValidUTF8String(m.Content.text)
                        THEN cleanInvalidUTF8Chars(m.Content.text)
                        ELSE m.Content.text
             content == IF m.Content.kind = "string"
                            THEN Content("string", jsonMarshalString(str), <<>>)
                            ELSE m.Content
         IN  IF m.Role = "system"
                 THEN rest
             ELSE IF m.Content.kind = "unencodable"
                 THEN [inputs |-> <<>>, err |-> "failed to marshal complex content"]
             ELSE IF rest.err # "none"
                 THEN rest
             ELSE [inputs |-> <<Input(IF b = "first" THEN "message" ELSE "input",
                                      m.Role, content)>> \o rest.inputs,
                   err |-> "none"]

RECURSIVE ClcConvertClaudeMessagesToInputs(_)
\* claude.convertClaudeMessagesToInputs, convert_responses.go lines 200-250:
\* a structured content is encoded as it is
ClcConvertClaudeMessagesToInputs(messages) ==
    IF messages = <<>>
        THEN [inputs |-> <<>>, err |-> "none"]
    ELSE LET m == Head(messages)
             rest == ClcConvertClaudeMessagesToInputs(Tail(messages))
             str == IF ~ClcIsValidUTF8String(m.Content.text)
                        THEN cleanInvalidUTF8Chars(m.Content.text)
                        ELSE m.Content.text
             content == IF m.Content.kind = "string"
                            THEN Content("string", jsonMarshalString(str), <<>>)
                            ELSE m.Content
         IN  IF m.Role = "system"
                 THEN rest
             ELSE IF m.Content.kind = "unencodable"
                 THEN [inputs |-> <<>>, err |-> "failed to marshal complex content"]
             ELSE IF rest.err # "none"
                 THEN rest
             ELSE [inputs |-> <<Input("message", m.Role, content)>> \o rest.inputs,
                   err |-> "none"]

\* openai_responses.convertClaudeContentToResponses, lines 207-241 of its
\* file, followed by json.Marshal: the type of every object of an array is
\* rewritten (text to input_text, image to input_image); an array with an
\* element that is not an object is returned as it came; the array built for
\* an empty array is a nil slice, which encodes as null
convertClaudeContentToResponses(content) ==
    IF content.kind # "array"
        THEN content
    ELSE IF \E i \in 1..Len(content.blocks) : ~content.blocks[i].map
        THEN content
    ELSE IF content.blocks = <<>>
        THEN Content("null", <<>>, <<>>)
    ELSE Content("array", <<>>,
                 [i \in 1..Len(content.blocks) |->
                     LET blk == content.blocks[i]
                     IN  [blk EXCEPT !.type = CASE blk.type = "text" -> "input_text"
                                                [] blk.type = "image" -> "input_image"
                                                [] OTHER -> blk.type]])

RECURSIVE convertClaudeMessagesToInputs(_)
\* openai_responses.convertClaudeMessagesToInputs, lines 157-204 of its file:
\* every message becomes an item, whatever its role
convertClaudeMessagesToInputs(messages) ==
    IF messages = <<>>
        THEN [inputs |-> <<>>, err |-> "none"]
    ELSE LET m == Head(messages)
             rest == convertClaudeMessagesToInputs(Tail(messages))
             str == IF ~isValidUTF8String(m.Content.text)
                        THEN cleanInvalidUTF8Chars(m.Content.text)
                        ELSE m.Content.text
             content == IF m.Content.kind = "string"
                            THEN Content("string", jsonMarshalString(str), <<>>)
                            ELSE convertClaudeContentToResponses(m.Content)
         IN  IF m.Content.kind = "unencodable"
                 THEN [inputs |-> <<>>, err |-> "failed to marshal converted content"]
             ELSE IF rest.err # "none"
                 THEN rest
             ELSE [inputs |-> <<Input("message", m.Role, content)>> \o rest.inputs,
                   err |-> "none"]

\* claude.ClaudeMessagesToResponsesRequest (convert_responses.go lines
\* 68-160): a returned request carries its instructions and its input items
ClcMessagesToResponsesRequest(req) ==
    CASE req.nil -> [body |-> "none", err |-> "claude request is nil"]
      [] req.Model = "" -> [body |-> "none", err |-> "model is required"]
      [] ClcConvertClaudeMessagesToInputs(req.Messages).err # "none" ->
             [body |-> "none", err |-> "failed to convert claude messages to inputs"]
      [] ~req.encodable -> [body |-> "none", err |-> "failed to marshal tools"]
      [] OTHER ->
             [body |-> "responses_request", err |-> "none",
              Instructions |->
                  MarshalledInstructions(extractSystemMessageFromClaude(req.Messages)),
              Input |-> ClcConvertClaudeMessagesToInputs(req.Messages).inputs]

\* openai_responses.ClaudeMessagesToResponsesRequest, lines 20-114 of its file
OrcMessagesToResponsesRequest(req) ==
    CASE req.nil -> [body |-> "none", err |-> "claude request is nil"]
      [] req.Model = "" -> [body |-> "none", err |-> "model is required"]
      [] extractClaudeSystemMessage(req.System).err # "none" ->
             [body |-> "none", err |-> "failed to extract system message"]
      [] convertClaudeMessagesToInputs(req.Messages).err # "none" ->
             [body |-> "none", err |-> "failed to convert claude messages to inputs"]
      [] ~req.encodable -> [body |-> "none", err |-> "failed to marshal tools"]
      [] OTHER ->
             [body |-> "responses_request", err |-> "none",
              Instructions |->
                  MarshalledInstructions(extractClaudeSystemMessage(req.System).text),
              Input |-> convertClaudeMessagesToInputs(req.Messages).inputs]

\* openai_responses.ChatCompletionsToResponsesRequest (convert.go lines 69-174
\* and, for the second version, lines 461-549)
ChatCompletionsToResponsesRequest(b, req) ==
    CASE req.nil -> [body |-> "none", err |-> "chat request is nil"]
      [] req.Model = "" -> [body |-> "none", err |-> "model is required"]
      [] convertMessagesToInputs(b, req.Messages).err # "none" ->
             [body |-> "none", err |-> "failed to convert messages to inputs"]
      [] ~req.encodable -> [body |-> "none", err |-> "failed to marshal tools"]
      [] OTHER ->
             [body |-> "responses_request", err |-> "none",
              Instructions |-> ChatInstructions(b, extractSystemMessage(req.Messages)),
              Input |-> convertMessagesToInputs(b, req.Messages).inputs]

\* claude.RequestOpenAI2ClaudeComplete: the native conversion for the
\* completion mode; it returns a request and no error value
RequestOpenAI2ClaudeComplete(req) == [body |-> "claude_complete_request", err |-> "none"]

\* claude.RequestOpenAI2ClaudeMessage: the native conversion for the messages
\* mode; it returns a request or its own error
RequestOpenAI2ClaudeMessage(req) ==
    IF req.nativeOk
        THEN [body |-> "claude_message_request", err |-> "none"]
        ELSE [body |-> "none", err |-> "native conversion failed"]

---------------------------------------------------------------------------
\* The claude channel adaptor (adaptor.go).

CompletionModels == {"claude-2.1"}

\* Adaptor.Init: claude-2* and claude-instant* use the completion mode
ClaudeAdaptorInit(upstream) ==
    IF upstream \in CompletionModels THEN RequestModeCompletion ELSE RequestModeMessage

shouldRouteToResponses(modelName) ==
    modelName \in {"claude-3.5-sonnet", "claude-3-opus", "claude-3-haiku"}

\* the native conversion chosen by RequestMode, lines 134-138 and 147-151
ClaudeNativeConversion(mode, req) ==
    IF mode = RequestModeCompletion
        THEN RequestOpenAI2ClaudeComplete(req)
        ELSE RequestOpenAI2ClaudeMessage(req)

\* the router with the fallback left out: the translation error is returned
ClaudeOnTranslationError_Propagates(mode, req, t) == [body |-> "none", err |-> t.err]

\* lines 131-139: what ConvertOpenAIRequest returns when the translation failed
ClaudeOnTranslationError(mode, req, t) == ClaudeNativeConversion(mode, req)

\* the router without its nil check
ClaudeRejectsNil_Never(req) == FALSE

\* lines 117-119: a nil request is rejected before anything else
ClaudeRejectsNil(req) == req.nil

\* Adaptor.ConvertOpenAIRequest, lines 116-152: [out, ctx, info] after the call
ClaudeConvertOpenAIRequest(mode, c, i, req) ==
    IF ClaudeRejectsNil(req)
        THEN [out |-> [body |-> "none", err |-> "request is nil"], ctx |-> c, info |-> i]
    ELSE IF shouldRouteToResponses(i.OriginModelName)
        THEN LET c1 == [c EXCEPT !.converted_from_claude = "true",
                                 !.original_claude_request = "*dto.GeneralOpenAIRequest"]
                 t == ClcMessagesToResponsesRequest(req)
             IN  IF t.err # "none"
                     THEN [out |-> ClaudeOnTranslationError(mode, req, t),
                           ctx |-> c1, info |-> i]
                     ELSE [out |-> t, ctx |-> c1,
                           info |-> [i EXCEPT !.RelayMode = RelayModeResponses]]
    ELSE [out |-> ClaudeNativeConversion(mode, req), ctx |-> c, info |-> i]

\* Adaptor.ConvertClaudeRequest, lines 35-37: the request is returned as it is
ClaudeConvertClaudeRequest(c, i, req) ==
    [out |-> [body |-> IF req.nil THEN "nil_request" ELSE "claude_request", err |-> "none"],
     ctx |-> c, info |-> i]

\* claude Adaptor.GetRequestURL, adaptor.go lines 57-68: the path and the query
\* appended to info.ChannelBaseUrl; beta is info.IsClaudeBetaQuery
ClaudeGetRequestURL(mode, beta) ==
    [path |-> IF mode = RequestModeMessage THEN "/v1/messages" ELSE "/v1/complete",
     query |-> IF beta THEN "?beta=true" ELSE ""]

\* Adaptor.DoResponse, lines 172-191: the handler it calls
ClaudeDoResponse(mode, c, i) ==
    IF c.converted_from_claude = "true"
        THEN IF i.IsStream THEN ClcStream ELSE ClcBody
        ELSE IF i.IsStream THEN "claude.ClaudeStreamHandler" ELSE "claude.ClaudeHandler"

---------------------------------------------------------------------------
\* The openai_responses channel adaptor.

\* the router switching the relay mode before it translates
ResponsesConvertClaudeRequest_SwitchesFirst(c, i, req) ==
    IF req.nil
        THEN [out |-> [body |-> "none", err |-> "claude request is nil"],
              ctx |-> c, info |-> i]
    ELSE IF req.Model = ""
        THEN [out |-> [body |-> "none", err |-> "model is required"], ctx |-> c, info |-> i]
    ELSE LET c1 == [c EXCEPT !.converted_from_claude = "true",
                             !.original_claude_request = "*dto.ClaudeRequest"]
             i1 == [i EXCEPT !.RelayMode = RelayModeResponses]
             t == OrcMessagesToResponsesRequest(req)
         IN  IF t.err # "none"
                 THEN [out |-> [body |-> "none",
                                err |-> "failed to convert claude messages request"],
                       ctx |-> c1, info |-> i1]
                 ELSE [out |-> t, ctx |-> c1, info |-> i1]

\* Adaptor.ConvertClaudeRequest, lines 69-93
ResponsesConvertClaudeRequest(c, i, req) ==
    IF req.nil
        THEN [out |-> [body |-> "none", err |-> "claude request is nil"],
              ctx |-> c, info |-> i]
    ELSE IF req.Model = ""
        THEN [out |-> [body |-> "none", err |-> "model is required"], ctx |-> c, info |-> i]
    ELSE LET c1 == [c EXCEPT !.converted_from_claude = "true",
                             !.original_claude_request = "*dto.ClaudeRequest"]
             t == OrcMessagesToResponsesRequest(req)
         IN  IF t.err # "none"
                 THEN [out |-> [body |-> "none",
                                err |-> "failed to convert claude messages request"],
                       ctx |-> c1, info |-> i]
                 ELSE [out |-> t, ctx |-> c1,
                       info |-> [i EXCEPT !.RelayMode = RelayModeResponses]]

\* Adaptor.ConvertOpenAIRequest, lines 110-142
\* a router that sets the marker and does not store the original request
ResponsesConvertOpenAIRequest_MarkerOnly(b, c, i, req) ==
    IF req.nil
        THEN [out |-> [body |-> "none", err |-> "request is nil"], ctx |-> c, info |-> i]
    ELSE IF i.RelayMode = RelayModeChatCompletions
        THEN LET c1 == [c EXCEPT !.converted_from_chat = "true"]
                 t == ChatCompletionsToResponsesRequest(b, req)
             IN  IF t.err # "none"
                     THEN [out |-> [body |-> "none",
                                    err |-> "failed to convert chat completions request"],
                           ctx |-> c1, info |-> i]
                     ELSE [out |-> t, ctx |-> c1,
                           info |-> [i EXCEPT !.RelayMode = RelayModeResponses]]
    ELSE IF i.RelayMode = RelayModeResponses
        THEN [out |-> [body |-> "openai_request", err |-> "none"], ctx |-> c, info |-> i]
    ELSE [out |-> [body |-> "none", err |-> "unsupported relay mode"],
          ctx |-> c, info |-> i]

ResponsesConvertOpenAIRequest(b, c, i, req) ==
    IF req.nil
        THEN [out |-> [body |-> "none", err |-> "request is nil"], ctx |-> c, info |-> i]
    ELSE IF i.RelayMode = RelayModeChatCompletions
        THEN LET c1 == [c EXCEPT !.converted_from_chat = "true",
                                 !.original_chat_request = "*dto.GeneralOpenAIRequest"]
                 t == ChatCompletionsToResponsesRequest(b, req)
             IN  IF t.err # "none"
                     THEN [out |-> [body |-> "none",
                                    err |-> "failed to convert chat completions request"],
                           ctx |-> c1, info |-> i]
                     ELSE [out |-> t, ctx |-> c1,
                           info |-> [i EXCEPT !.RelayMode = RelayModeResponses]]
    ELSE IF i.RelayMode = RelayModeResponses
        THEN [out |-> [body |-> "openai_request", err |-> "none"], ctx |-> c, info |-> i]
    ELSE [out |-> [body |-> "none", err |-> "unsupported relay mode"],
          ctx |-> c, info |-> i]
\* Adaptor.DoResponse, lines 213-260: the handler it calls, or "none" when it
\* returns its own error
ResponsesDoResponse(c, i) ==
    IF c.converted_from_chat = "true"
        THEN IF i.IsStream THEN ChatStream ELSE ChatBody
    ELSE IF c.converted_from_claude = "true"
        THEN IF i.IsStream THEN OrcStream ELSE OrcBody
    ELSE IF i.RelayMode # RelayModeResponses
        THEN "none"
    ELSE IF i.IsStream THEN "openai.OaiResponsesStreamHandler"
                       ELSE "openai.OaiResponsesHandler"

---------------------------------------------------------------------------
\* The non-streaming reverse translators.  A backend body b is
\* [readable, parses, StatusCode, ID, Status, Error, Usage, Output]: StatusCode
\* is the HTTP status code of the backend response, Error is "none", the
\* type of a structured error object, or "untyped" for an error object whose
\* type is empty.

\* net/http: http.StatusInternalServerError
StatusInternalServerError == 500

OutputText(text) ==
    <<[Type |-> "message", Role |-> "assistant",
       Content |-> <<[Type |-> "output_text", Text |-> text]>>]>>

\* a backend answers an error with a status code of its own, 429 here, and
\* everything else with 200
BackendBody(readable, parses, status, error, u, output) ==
    [readable |-> readable, parses |-> parses,
     StatusCode |-> IF error = "none" THEN 200 ELSE 429,
     ID |-> "resp_1", Status |-> status,
     Error |-> error, Usage |-> u, Output |-> output]

BackendBodies ==
    LET OutputItem(role, content) ==
            [Type |-> "message", Role |-> role, Content |-> content]
        OutputBlock(type, text) == [Type |-> type, Text |-> text]
    IN
    {BackendBody(TRUE, TRUE, "completed", "none", BackendUsage(5, 2, 7), OutputText("Hi")),
     BackendBody(TRUE, TRUE, "incomplete", "none", BackendUsage(5, 2, 9), OutputText("Hi")),
     BackendBody(TRUE, TRUE, "completed", "none", NoUsage, OutputText("Hi")),
     BackendBody(TRUE, TRUE, "failed", "server_error", NoUsage, <<>>),
     BackendBody(TRUE, TRUE, "failed", "untyped", BackendUsage(5, 2, 7), <<>>),
     BackendBody(TRUE, TRUE, "failed", "none", NoUsage, <<>>),
     BackendBody(TRUE, TRUE, "cancelled", "none", NoUsage, OutputText("Hi")),
     BackendBody(TRUE, TRUE, "queued", "none", NoUsage, <<>>),
     BackendBody(TRUE, TRUE, "completed", "none", NoUsage,
                 <<OutputItem("assistant", <<OutputBlock("output_text", "Hi"),
                                             OutputBlock("refusal", "No"),
                                             OutputBlock("text", " there")>>),
                   [Type |-> "reasoning", Role |-> "assistant",
                    Content |-> <<OutputBlock("output_text", "Hm")>>],
                   OutputItem("user", <<OutputBlock("output_text", "Yo")>>),
                   OutputItem("assistant", <<OutputBlock("output_text", "!")>>)>>),
     BackendBody(TRUE, TRUE, "completed", "none", NoUsage,
                 <<OutputItem("assistant", <<OutputBlock("text", "Hi")>>)>>),
     BackendBody(FALSE, TRUE, "", "none", NoUsage, <<>>),
     [BackendBody(FALSE, TRUE, "", "none", NoUsage, <<>>) EXCEPT !.StatusCode = 502],
     BackendBody(TRUE, FALSE, "", "none", NoUsage, <<>>)}

RECURSIVE ConcatOutputText(_, _)
\* the inner loop of extractContentFromOutput: the blocks of one item whose
\* type is the one the function tests
ConcatOutputText(type, content) ==
    IF content = <<>>
        THEN ""
        ELSE (IF Head(content).Type = type THEN Head(content).Text ELSE "")
                 \o ConcatOutputText(type, Tail(content))

RECURSIVE extractContentFromOutput(_, _)
\* extractContentFromOutput of the openai_responses package: convert.go lines
\* 318-330 test the block type "output_text", the second definition (lines
\* 679-691) tests "text"
extractContentFromOutput(b, output) ==
    IF output = <<>>
        THEN ""
        ELSE (IF Head(output).Type = "message" /\ Head(output).Role = "assistant"
                  THEN ConcatOutputText(IF b = "first" THEN "output_text" ELSE "text",
                                        Head(output).Content)
                  ELSE "")
                 \o extractContentFromOutput(b, Tail(output))

\* the error envelope of the Chat-style assemblers: id, model and the error
ErrorEnvelope(id, error) ==
    [Frame("", id, "", NoIndex, "", "", NoUsage) EXCEPT !.error = error]

\* claude_handler.go, ResponsesToClaudeResponse, lines 196-236
ResponsesToClaudeResponse(bld, b) ==
    Frame("message", b.ID, "assistant", NoIndex,
          extractContentFromOutput(bld, b.Output),
          extractClaudeStopReason(b.Status),
          IF b.Usage.present
              THEN ClaudeUsage(b.Usage.InputTokens, b.Usage.OutputTokens)
              ELSE NoUsage)

\* convert.go, ResponsesToChatCompletionsResponse, lines 263-311
ResponsesToChatCompletionsResponse(bld, b) ==
    IF b.Error # "none"
        THEN ErrorEnvelope(b.ID, b.Error)
        ELSE Frame("chat.completion", b.ID, "assistant", 0,
                   extractContentFromOutput(bld, b.Output),
                   extractFinishReason(b.Status),
                   IF b.Usage.present THEN b.Usage ELSE ZeroUsage)

\* convert_responses.go, ResponsesToClaudeMessagesResponse, lines 259-307
ResponsesToClaudeMessagesResponse(b) ==
    IF b.Error # "none"
        THEN [ErrorEnvelope(b.ID, b.Error) EXCEPT !.usage = ZeroUsage]
        ELSE Frame("chat.completion", b.ID, "assistant", 0,
                   \* the package's own extractContentFromOutput, lines
                   \* 314-326: the loops of convert.go lines 318-330
                   extractContentFromOutput("first", b.Output),
                   extractFinishReasonFromResponses(b.Status),
                   IF b.Usage.present THEN b.Usage ELSE ZeroUsage)

\* the returned usage with the total recomputed instead of copied
OrcBodyUsage_RecomputesTotal(b) ==
    IF b.Usage.present
        THEN [ZeroUsage EXCEPT !.PromptTokens = b.Usage.InputTokens,
                               !.CompletionTokens = b.Usage.OutputTokens,
                               !.TotalTokens = b.Usage.InputTokens + b.Usage.OutputTokens]
        ELSE ZeroUsage

\* the usage the openai_responses handlers return: claude_handler.go lines
\* 84-92
OrcBodyUsage(b) ==
    IF b.Usage.present
        THEN [ZeroUsage EXCEPT !.PromptTokens = b.Usage.InputTokens,
                               !.CompletionTokens = b.Usage.OutputTokens,
                               !.TotalTokens = b.Usage.TotalTokens]
        ELSE ZeroUsage

\* the Chat handler's, lines 314-323 of its file
ChatBodyUsage(b) ==
    IF b.Usage.present
        THEN [ZeroUsage EXCEPT !.PromptTokens = b.Usage.InputTokens,
                               !.CompletionTokens = b.Usage.OutputTokens,
                               !.TotalTokens = b.Usage.TotalTokens]
        ELSE ZeroUsage

\* the claude package's handler returns the converted response's usage, which
\* is the backend's usage object as it was decoded: convert_responses.go line
\* 520
ClcBodyUsage(b) == ResponsesToClaudeMessagesResponse(b).usage

\* a handler's error return: the error and its status code; the code of
\* an error made by types.NewError is set outside the handlers and is 0 here
Failed(err) == [usage |-> NoUsage, err |-> err, code |-> 0, written |-> <<>>]

\* an error return that answers every failure with the internal-error code
FailedWith_AlwaysInternal(err, code) ==
    [Failed(err) EXCEPT !.code = StatusInternalServerError]

\* an error return with the status code the handler gives it:
\* types.NewOpenAIError(err, code, http.StatusInternalServerError) and
\* types.WithOpenAIError(*oaiError, resp.StatusCode)
FailedWith(err, code) == [Failed(err) EXCEPT !.code = code]

\* openai_responses.ResponsesToClaudeHandler, claude_handler.go lines 24-93
OrcBodyHandler(bld, c, b) ==
    CASE c.original_claude_request = "unset" -> Failed("original claude request not found")
      [] c.original_claude_request # "*dto.ClaudeRequest" ->
             Failed("invalid original request type")
      [] ~b.readable -> FailedWith("read_response_body_failed", StatusInternalServerError)
      [] ~b.parses -> FailedWith("bad_response_body", StatusInternalServerError)
      [] b.Error \notin {"none", "untyped"} -> FailedWith("upstream_error", b.StatusCode)
      [] OTHER -> [usage |-> OrcBodyUsage(b), err |-> "none", code |-> 0,
                   written |-> <<ResponsesToClaudeResponse(bld, b)>>]

\* openai_responses.ResponsesToChatHandler, lines 264-338 of its file
ChatBodyHandler(bld, c, b) ==
    CASE c.original_chat_request = "unset" -> Failed("original chat request not found")
      [] c.original_chat_request # "*dto.GeneralOpenAIRequest" ->
             Failed("invalid original request type")
      [] ~b.readable -> FailedWith("read_response_body_failed", StatusInternalServerError)
      [] ~b.parses -> FailedWith("bad_response_body", StatusInternalServerError)
      [] b.Error \notin {"none", "untyped"} -> FailedWith("upstream_error", b.StatusCode)
      [] OTHER -> [usage |-> ChatBodyUsage(b), err |-> "none", code |-> 0,
                   written |-> <<ResponsesToChatCompletionsResponse(bld, b)>>]

\* claude.ResponsesToClaudeHandler, convert_responses.go lines 451-521
ClcBodyHandler(c, b) ==
    CASE ~b.readable -> FailedWith("read_response_body_failed", StatusInternalServerError)
      [] ~b.parses -> FailedWith("bad_response_body", StatusInternalServerError)
      [] b.Error \notin {"none", "untyped"} -> FailedWith("upstream_error", b.StatusCode)
      [] c.original_claude_request = "unset" ->
             FailedWith("original claude request not found in context", StatusInternalServerError)
      [] c.original_claude_request # "*dto.GeneralOpenAIRequest" ->
             FailedWith("invalid original request type", StatusInternalServerError)
      [] OTHER -> [usage |-> ClcBodyUsage(b), err |-> "none", code |-> 0,
                   written |-> <<ResponsesToClaudeMessagesResponse(b)>>]

BodyHandler(bld, h, c, b) ==
    CASE h = OrcBody -> OrcBodyHandler(bld, c, b)
      [] h = ChatBody -> ChatBodyHandler(bld, c, b)
      [] h = ClcBody -> ClcBodyHandler(c, b)

---------------------------------------------------------------------------
\* The life of one request: the relay calls the adaptor's router, sends the
\* converted request (outside the core) and hands the backend response to the
\* adaptor's DoResponse.

UnsetContext ==
    [converted_from_claude |-> "unset", converted_from_chat |-> "unset",
     original_claude_request |-> "unset", original_chat_request |-> "unset"]

ModelNames == {"claude-3-opus", "claude-2.1"}

Init ==
    /\ pc = "route"
    /\ adaptor \in {"claude", "openai_responses"}
    /\ entry \in {"ConvertOpenAIRequest", "ConvertClaudeRequest"}
    /\ request \in Requests
    /\ info \in [OriginModelName : ModelNames, UpstreamModelName : ModelNames,
                 RelayMode : {RelayModeChatCompletions, RelayModeResponses,
                              RelayModeEmbeddings},
                 IsStream : BOOLEAN, PromptTokens : PromptTokenChoices,
                 BuiltInTools : {NoBuiltInTools}]
    /\ RequestMode = IF adaptor = "claude"
                         THEN ClaudeAdaptorInit(info.UpstreamModelName)
                         ELSE 0
    /\ ctx = UnsetContext
    /\ build \in ConvertBuilds
    /\ converted = [body |-> "none", err |-> "pending"]
    /\ handler = "none"
    /\ responseID = ""
    /\ messageStartSent = FALSE
    /\ responseText = ""
    /\ usage = ZeroUsage
    /\ consumed = <<>>
    /\ emitted = <<>>
    /\ body = "open"
    /\ ret = NoReturn

\* the router returned r: the relay goes on to the backend only when it
\* returned no error
Routed(r) ==
    /\ converted' = r.out
    /\ ctx' = r.ctx
    /\ info' = r.info
    /\ pc' = IF r.out.err = "none" THEN "respond" ELSE "aborted"
    /\ UNCHANGED <<adaptor, entry, RequestMode, request, build, handler, streamVars, body,
                   ret>>

ClaudeRouteOpenAI ==
    /\ pc = "route"
    /\ adaptor = "claude"
    /\ entry = "ConvertOpenAIRequest"
    /\ Routed(ClaudeConvertOpenAIRequest(RequestMode, ctx, info, request))

ClaudeRouteClaude ==
    /\ pc = "route"
    /\ adaptor = "claude"
    /\ entry = "ConvertClaudeRequest"
    /\ Routed(ClaudeConvertClaudeRequest(ctx, info, request))

ResponsesRouteOpenAI ==
    /\ pc = "route"
    /\ adaptor = "openai_responses"
    /\ entry = "ConvertOpenAIRequest"
    /\ Routed(ResponsesConvertOpenAIRequest(build, ctx, info, request))

ResponsesRouteClaude ==
    /\ pc = "route"
    /\ adaptor = "openai_responses"
    /\ entry = "ConvertClaudeRequest"
    /\ Routed(ResponsesConvertClaudeRequest(ctx, info, request))

\* DoResponse called the handler h.  A stream handler starts its scanner loop
\* (the two openai_responses stream handlers first reject a nil response); a
\* non-streaming handler runs to its return on the backend body b; the native
\* handlers are outside the core.
Dispatched(h) ==
    /\ IF h = ClcStream /\ ctx.converted_from_claude # "true"
         THEN \* convert_responses.go lines 358-362: the handler hands the
              \* response to the native stream handler before it defers the close
              /\ handler' = "claude.ClaudeStreamHandler"
              /\ pc' = "done"
              /\ ret' = [usage |-> NoUsage, err |-> "native"]
              /\ UNCHANGED <<body, emitted, consumed>>
       ELSE IF h \in StreamHandlers
         THEN /\ handler' = h
              /\ IF body = "nil" /\ h # ClcStream
                   THEN /\ pc' = "done"
                        /\ ret' = [usage |-> NoUsage, err |-> "invalid response"]
                   ELSE /\ pc' = "streaming"
                        /\ UNCHANGED ret
              /\ UNCHANGED <<body, emitted, consumed>>
       ELSE IF h \in BodyHandlers
         THEN /\ handler' = h
              /\ \E b \in BackendBodies :
                    LET r == BodyHandler(build, h, ctx, b)
                    IN  /\ ret' = [usage |-> r.usage, err |-> r.err, code |-> r.code]
                        /\ emitted' = r.written
                        /\ consumed' = <<b>>
                        /\ body' = CloseResponseBodyGracefully(body)
                        /\ pc' = "done"
       ELSE /\ handler' = h
            /\ pc' = "done"
            /\ ret' = [usage |-> NoUsage,
                       err |-> IF h = "none" THEN "unsupported relay mode" ELSE "native"]
            /\ UNCHANGED <<body, emitted, consumed>>
    /\ UNCHANGED <<responseID, messageStartSent, responseText, usage, routeVars>>

ClaudeRespond ==
    /\ pc = "respond"
    /\ adaptor = "claude"
    /\ Dispatched(ClaudeDoResponse(RequestMode, ctx, info))

ResponsesRespond ==
    /\ pc = "respond"
    /\ adaptor = "openai_responses"
    /\ Dispatched(ResponsesDoResponse(ctx, info))

Next ==
    \/ ClaudeRouteOpenAI
    \/ ClaudeRouteClaude
    \/ ResponsesRouteOpenAI
    \/ ResponsesRouteClaude
    \/ ClaudeRespond
    \/ ResponsesRespond
    \/ OrcOnFrame(LifeFrames, MaxLifeFrames)
    \/ ClcOnFrame(LifeFrames, MaxLifeFrames)
    \/ ChatOnFrame(LifeFrames, MaxLifeFrames)
    \/ OrcEnd
    \/ ClcEnd
    \/ ChatEnd

Spec == Init /\ [][Next]_vars

---------------------------------------------------------------------------
\* A response handler invoked directly, on any response and with any request
\* context: every handler, every event shape, every exit path.

\* the context a handler may find: its marker with the original request
\* absent, of the other dialect's type or of its own; the claude package's
\* stream handler also without its marker
InvokeContexts(h) ==
    LET originals == IF h \in BodyHandlers
                         THEN {"unset", "*dto.ClaudeRequest", "*dto.GeneralOpenAIRequest"}
                         ELSE {IF h = OrcStream THEN "*dto.ClaudeRequest"
                                                ELSE "*dto.GeneralOpenAIRequest"}
        markers == IF h = ClcStream THEN {"true", "unset"} ELSE {"true"}
    IN  IF h \in {ChatStream, ChatBody}
            THEN {[UnsetContext EXCEPT !.converted_from_chat = "true",
                                       !.original_chat_request = o] : o \in originals}
            ELSE {[UnsetContext EXCEPT !.converted_from_claude = m,
                                       !.original_claude_request = o] :
                      m \in markers, o \in originals}

InitEvents ==
    /\ pc = "invoke"
    /\ handler \in StreamHandlers \cup BodyHandlers
    /\ adaptor = IF handler \in {ClcStream, ClcBody} THEN "claude" ELSE "openai_responses"
    /\ entry = IF handler \in {OrcStream, OrcBody}
                   THEN "ConvertClaudeRequest" ELSE "ConvertOpenAIRequest"
    /\ RequestMode = RequestModeMessage
    /\ request = [nil |-> FALSE, Model |-> "claude-3-opus", encodable |-> TRUE,
                  nativeOk |-> TRUE]
    /\ build \in BuildsFor(handler)
    \* the counting of tool calls does not call into convert.go: the counters
    \* are varied under its first definition only
    /\ \E tools \in IF handler = ChatStream /\ build = "first"
                         THEN RegisteredTools ELSE {NoBuiltInTools} :
           info = [OriginModelName |-> "claude-3-opus",
                   UpstreamModelName |-> "claude-3-opus",
                   RelayMode |-> RelayModeResponses,
                   IsStream |-> handler \in StreamHandlers,
                   PromptTokens |-> 4, BuiltInTools |-> tools]
    /\ ctx \in InvokeContexts(handler)
    /\ converted = [body |-> "responses_request", err |-> "none"]
    /\ responseID = ""
    /\ messageStartSent = FALSE
    /\ responseText = ""
    /\ usage = ZeroUsage
    /\ consumed = <<>>
    /\ emitted = <<>>
    /\ body \in IF handler \in {OrcStream, ChatStream} THEN {"open", "nil"} ELSE {"open"}
    /\ ret = NoReturn

\* the handler is called
Invoke ==
    /\ pc = "invoke"
    /\ Dispatched(handler)

NextEvents ==
    \/ Invoke
    \/ OrcOnFrame(EventFrames, MaxEventFrames)
    \/ ClcOnFrame(EventFrames, MaxEventFrames)
    \/ ChatOnFrame(EventFrames \cup ToolCallFrames, MaxEventFrames)
    \/ OrcEnd
    \/ ClcEnd
    \/ ChatEnd

SpecEvents == InitEvents /\ [][NextEvents]_vars

---------------------------------------------------------------------------
\* A request translator called directly on any source request: every shape
\* of content, every failing step.

\* the three translators
Translator ==
    [Chat |-> "openai_responses.ChatCompletionsToResponsesRequest",
     Orc |-> "openai_responses.ClaudeMessagesToResponsesRequest",
     Clc |-> "claude.ClaudeMessagesToResponsesRequest"]

\* the messages a source request is made of: system, user and assistant
\* messages with plain-text content (valid, with a control character, with an
\* invalid byte, empty), with structured content and with no content
SourceMessages ==
    LET Str(t) == Content("string", t, <<>>)
        Arr(bs) == Content("array", <<>>, bs)
    IN  {[Role |-> "system", Content |-> Str(<<"a">>)],
         [Role |-> "system", Content |-> Str(<<"a", "BEL">>)],
         [Role |-> "system", Content |-> Str(<<"BAD", "a">>)],
         [Role |-> "system", Content |-> Str(<<>>)],
         [Role |-> "system", Content |-> Content("unencodable", <<>>, <<>>)],
         [Role |-> "user", Content |-> Str(<<"a", "LF">>)],
         [Role |-> "user", Content |-> Str(<<"BAD", "BEL">>)],
         [Role |-> "user", Content |-> Str(<<"a", "BEL">>)],
         [Role |-> "user", Content |-> Arr(<<Block(TRUE, "text", "hi"),
                                             Block(TRUE, "tool_use", "call")>>)],
         [Role |-> "user", Content |-> Arr(<<Block(TRUE, "image", "png"),
                                             Block(FALSE, "", "bare")>>)],
         [Role |-> "user", Content |-> Arr(<<>>)],
         [Role |-> "user", Content |-> Content("unencodable", <<>>, <<>>)],
         [Role |-> "assistant", Content |-> Str(<<"a">>)],
         [Role |-> "assistant", Content |-> Content("nil", <<>>, <<>>)]}

\* the requests a translator t is called on; only a dto.ClaudeRequest has a
\* system field
SourceRequests(t) ==
    {NoRequest} \cup
    [nil : {FALSE}, Model : {"", "gpt-5"}, encodable : BOOLEAN, nativeOk : {TRUE},
     System : IF t = Translator.Orc
                  THEN {Content("nil", <<>>, <<>>), Content("string", <<"a">>, <<>>),
                        Content("string", <<"a", "BEL">>, <<>>),
                        Content("string", <<"BAD", "a">>, <<>>),
                        Content("unencodable", <<>>, <<>>)}
                  ELSE {Content("nil", <<>>, <<>>)},
     Messages : UNION {[1..n -> SourceMessages] : n \in 0..MaxMessages}]

InitTranslate ==
    /\ pc = "translate"
    /\ entry \in {Translator.Chat, Translator.Orc, Translator.Clc}
    /\ adaptor = IF entry = Translator.Clc THEN "claude" ELSE "openai_responses"
    /\ build \in IF entry = Translator.Chat THEN ConvertBuilds ELSE {"first"}
    /\ request \in SourceRequests(entry)
    /\ RequestMode = RequestModeMessage
    /\ info = [OriginModelName |-> "claude-3-opus", UpstreamModelName |-> "claude-3-opus",
               RelayMode |-> RelayModeChatCompletions, IsStream |-> FALSE,
               PromptTokens |-> 0, BuiltInTools |-> NoBuiltInTools]
    /\ ctx = UnsetContext
    /\ converted = [body |-> "none", err |-> "pending"]
    /\ handler = "none"
    /\ responseID = ""
    /\ messageStartSent = FALSE
    /\ responseText = ""
    /\ usage = ZeroUsage
    /\ consumed = <<>>
    /\ emitted = <<>>
    /\ body = "open"
    /\ ret = NoReturn

\* the translator returns
Translate ==
    /\ pc = "translate"
    /\ converted' = CASE entry = Translator.Chat ->
                             ChatCompletionsToResponsesRequest(build, request)
                      [] entry = Translator.Orc -> OrcMessagesToResponsesRequest(request)
                      [] entry = Translator.Clc -> ClcMessagesToResponsesRequest(request)
    /\ pc' = "translated"
    /\ UNCHANGED <<adaptor, entry, RequestMode, request, info, ctx, build, handler,
                   streamVars, body, ret>>

SpecTranslate == InitTranslate /\ [][Translate]_vars

---------------------------------------------------------------------------
\* The text functions called directly on any text of at most MaxTextLen
\* elements: the validity check of the package named by adaptor, then
\* cleanInvalidUTF8Chars, twice.  request is the text at hand and consumed
\* the texts it was before.

InitText ==
    /\ pc = "text"
    /\ adaptor \in {"claude", "openai_responses"}
    /\ request \in UNION {[1..n -> Runes] : n \in 0..MaxTextLen}
    /\ entry = "isValidUTF8String"
    /\ build = "first"
    /\ RequestMode = RequestModeMessage
    /\ info = [OriginModelName |-> "claude-3-opus", UpstreamModelName |-> "claude-3-opus",
               RelayMode |-> RelayModeChatCompletions, IsStream |-> FALSE,
               PromptTokens |-> 0, BuiltInTools |-> NoBuiltInTools]
    /\ ctx = UnsetContext
    /\ converted = [body |-> "none", err |-> "pending"]
    /\ handler = "none"
    /\ responseID = ""
    /\ messageStartSent = FALSE
    /\ responseText = ""
    /\ usage = ZeroUsage
    /\ consumed = <<>>
    /\ emitted = <<>>
    /\ body = "open"
    /\ ret = NoReturn

\* isValidUTF8String(request) returns
CheckText ==
    /\ pc = "text"
    /\ converted' = [valid |-> IF adaptor = "claude" THEN ClcIsValidUTF8String(request)
                                                     ELSE isValidUTF8String(request)]
    /\ pc' = "checked"
    /\ UNCHANGED <<adaptor, entry, RequestMode, request, info, ctx, build, handler,
                   streamVars, body, ret>>

\* request = cleanInvalidUTF8Chars(request)
CleanText ==
    /\ pc \in {"checked", "cleaned"}
    /\ request' = cleanInvalidUTF8Chars(request)
    /\ consumed' = Append(consumed, request)
    /\ pc' = IF pc = "checked" THEN "cleaned" ELSE "cleaned again"
    /\ UNCHANGED <<adaptor, entry, RequestMode, info, ctx, converted, build, handler,
                   responseID, messageStartSent, responseText, usage, emitted, body, ret>>

SpecText == InitText /\ [][CheckText \/ CleanText]_vars

---------------------------------------------------------------------------
\* Properties.

FrameTypes(frames) == [i \in 1..Len(frames) |-> frames[i].type]

LastOf(seq) == seq[Len(seq)]

MessagesStreams == {OrcStream, ClcStream}

\* the stop reason the Messages dialect documents for a backend status
DocumentedStopReason(status) ==
    CASE status = "completed" -> "end_turn"
      [] status = "incomplete" -> "max_tokens"
      [] status = "failed" -> "error"
      [] OTHER -> "stop"

\* C1: on the scenario [created, output_item.added(assistant), delta "Hi",
\* delta " there", done(completed, usage 5/2)] a Responses-to-Messages stream
\* handler writes message_start, content_block_start, delta "Hi", delta
\* " there", content_block_stop, message_delta(end_turn), message_stop, in this
\* order and nothing else, and returns the usage {prompt 5, completion 2,
\* total 7}.
C1_ScenarioFrames ==
    (handler \in MessagesStreams /\ pc = "done" /\ consumed = Scenario) =>
        /\ FrameTypes(emitted) =
               <<"message_start", "content_block_start", "content_block_delta",
                 "content_block_delta", "content_block_stop", "message_delta",
                 "message_stop">>
        /\ emitted[3].text = "Hi"
        /\ emitted[4].text = " there"
        /\ emitted[6].reason = "end_turn"
        /\ ret.usage.PromptTokens = 5
        /\ ret.usage.CompletionTokens = 2
        /\ ret.usage.TotalTokens = 7

\* C2: in a Responses-to-Messages stream every terminal event (response.done
\* or response.completed, here with its response snapshot) makes the handler
\* write exactly content_block_stop, message_delta with the stop reason mapped
\* from the status, message_stop, in this order.
C2_TerminalTriple ==
    [][(/\ handler \in MessagesStreams
        /\ pc = "streaming"
        /\ Len(consumed') = Len(consumed) + 1
        /\ LastOf(consumed').ok
        /\ LastOf(consumed').Type \in {"response.done", "response.completed"}
        /\ LastOf(consumed').Response.present)
       => /\ Len(emitted') = Len(emitted) + 3
          /\ SubSeq(emitted', 1, Len(emitted)) = emitted
          /\ emitted'[Len(emitted) + 1].type = "content_block_stop"
          /\ emitted'[Len(emitted) + 2].type = "message_delta"
          /\ emitted'[Len(emitted) + 2].reason =
                 DocumentedStopReason(LastOf(consumed').Response.Status)
          /\ emitted'[Len(emitted) + 3].type = "message_stop"]_vars

\* C3: the claude adaptor's DoResponse calls a Responses reverse translator
\* only for a request whose outbound body ConvertOpenAIRequest translated; a
\* request that was not converted, or whose translation failed and fell back
\* to the native conversion, gets the native Claude handler.
C3_ReverseTranslatorOnlyIfTranslated ==
    (adaptor = "claude" /\ handler \in {ClcStream, ClcBody}) =>
        converted.body = "responses_request"

\* C4: when the model is selected for smart routing and the translation
\* fails, the claude adaptor's ConvertOpenAIRequest returns what the native
\* conversion for the RequestMode returns (RequestOpenAI2ClaudeComplete, or
\* RequestOpenAI2ClaudeMessage with its own error if it has one), never the
\* translation error, in the router call itself: no backend frame has been
\* read when it returns.
C4_FallbackReturnsNativeConversion ==
    (/\ adaptor = "claude"
     /\ entry = "ConvertOpenAIRequest"
     /\ pc # "route"
     /\ ~request.nil
     /\ shouldRouteToResponses(info.OriginModelName)
     /\ (request.Model = "" \/ ~request.encodable))
    => /\ converted.err \notin {"model is required", "claude request is nil",
                                "failed to convert claude messages to inputs",
                                "failed to marshal tools"}
       /\ RequestMode = RequestModeCompletion =>
              converted = [body |-> "claude_complete_request", err |-> "none"]
       /\ (RequestMode = RequestModeMessage /\ request.nativeOk) =>
              converted = [body |-> "claude_message_request", err |-> "none"]
       /\ (RequestMode = RequestModeMessage /\ ~request.nativeOk) =>
              converted = [body |-> "none", err |-> "native conversion failed"]
       /\ pc \in {"respond", "aborted"} => (consumed = <<>> /\ body = "open")

C4_Witness ==
    /\ adaptor = "claude"
    /\ entry = "ConvertOpenAIRequest"
    /\ pc = "respond"
    /\ shouldRouteToResponses(info.OriginModelName)
    /\ request.Model = ""
    /\ converted.body = "claude_message_request"

\* C5 as stated: a nil request makes the router fall back to native handling;
\* the router call returns no error.
C5_NilRequestFallsBack ==
    (request.nil /\ pc # "route") => converted.err = "none"

\* C5 as amended: a nil request fails each translator with an input error;
\* ConvertOpenAIRequest of either adaptor and ConvertClaudeRequest of the
\* Responses adaptor reject it with an input error before any translation or
\* native conversion (no request is returned, no marker is set); the claude
\* adaptor's ConvertClaudeRequest returns the nil request unchanged, without
\* an error.
C5_NilRequestRejected ==
    /\ ClcMessagesToResponsesRequest(NoRequest).err = "claude request is nil"
    /\ OrcMessagesToResponsesRequest(NoRequest).err = "claude request is nil"
    /\ ChatCompletionsToResponsesRequest(build, NoRequest).err = "chat request is nil"
    /\ (request.nil /\ pc # "route") =>
           IF adaptor = "claude" /\ entry = "ConvertClaudeRequest"
               THEN converted = [body |-> "nil_request", err |-> "none"]
               ELSE /\ converted.body = "none"
                    /\ converted.err \in {"request is nil", "claude request is nil"}
                    /\ ctx = UnsetContext

C5_Witness ==
    /\ request.nil
    /\ adaptor = "claude"
    /\ entry = "ConvertOpenAIRequest"
    /\ shouldRouteToResponses(info.OriginModelName)
    /\ pc # "route"
    /\ converted.err = "request is nil"

\* C6: the usage a stream handler returns has total = prompt + completion,
\* whatever total the backend reported.
C6_StreamTotalIsSum ==
    (pc = "done" /\ handler \in StreamHandlers) =>
        ret.usage.TotalTokens = ret.usage.PromptTokens + ret.usage.CompletionTokens

C6_Witness ==
    /\ pc = "done"
    /\ handler = ChatStream
    /\ usage.TotalTokens = 9
    /\ ret.usage.PromptTokens = 5
    /\ ret.usage.CompletionTokens = 2
    /\ ret.usage.TotalTokens = 7

\* the backend body a non-streaming handler was given
BackendBodyRead == consumed[1]

\* C7 as stated: the usage a non-streaming handler returns has its total
\* recomputed as prompt + completion.
C7_BodyTotalIsSum ==
    (pc = "done" /\ handler \in BodyHandlers /\ ret.err = "none") =>
        ret.usage.TotalTokens = ret.usage.PromptTokens + ret.usage.CompletionTokens

\* C7 as amended: the usage a non-streaming handler returns carries the
\* backend's total_tokens as reported, not recomputed; it is 0 when the
\* response has no usage object and, in the claude package's handler, when
\* the response carries an error object.
C7_BodyTotalIsBackendTotal ==
    (pc = "done" /\ handler \in BodyHandlers /\ ret.err = "none") =>
        ret.usage.TotalTokens =
            IF /\ BackendBodyRead.Usage.present
               /\ ~(handler = ClcBody /\ BackendBodyRead.Error # "none")
                THEN BackendBodyRead.Usage.TotalTokens
                ELSE 0

C7_Witness ==
    /\ pc = "done"
    /\ handler = OrcBody
    /\ ret.err = "none"
    /\ ret.usage.PromptTokens = 5
    /\ ret.usage.CompletionTokens = 2
    /\ ret.usage.TotalTokens = 9

\* C8: at the end of a stream the returned completion tokens are the output
\* tokens captured from the backend when these are non-zero; otherwise the
\* tokenizer's count for the accumulated text when it is non-empty; otherwise
\* zero.
C8_CompletionReconciled ==
    (pc = "done" /\ handler \in StreamHandlers) =>
        ret.usage.CompletionTokens =
            IF usage.CompletionTokens # 0
                THEN usage.CompletionTokens
            ELSE IF responseText # ""
                THEN CountTextToken(responseText, info.UpstreamModelName)
            ELSE 0

C8_Witness ==
    /\ pc = "done"
    /\ handler = OrcStream
    /\ usage.CompletionTokens = 0
    /\ responseText = "HiHiHi"
    /\ ret.usage.CompletionTokens = 2

\* C9: at the end of a stream the returned prompt tokens are the input tokens
\* captured from the backend when these are non-zero; otherwise the request's
\* own prompt-token count when the completion tokens are non-zero; otherwise
\* zero.
C9_PromptReconciled ==
    (pc = "done" /\ handler \in StreamHandlers) =>
        ret.usage.PromptTokens =
            IF usage.PromptTokens # 0
                THEN usage.PromptTokens
            ELSE IF ret.usage.CompletionTokens # 0
                THEN info.PromptTokens
            ELSE 0

C9_Witness ==
    /\ pc = "done"
    /\ handler = ClcStream
    /\ usage.PromptTokens = 0
    /\ ret.usage.CompletionTokens = 3
    /\ info.PromptTokens = 4
    /\ ret.usage.PromptTokens = 4

\* C10: for every stream handler, a stream that ends with a terminal event
\* (response.done or response.completed) carrying a usage object with
\* non-zero input and output tokens returns these as prompt and completion
\* tokens.
C10_TerminalUsageCaptured ==
    (/\ pc = "done"
     /\ handler \in StreamHandlers
     /\ consumed # <<>>
     /\ LastOf(consumed).ok
     /\ LastOf(consumed).Type \in {"response.done", "response.completed"}
     /\ LastOf(consumed).Response.present
     /\ LastOf(consumed).Response.Usage.present
     /\ LastOf(consumed).Response.Usage.InputTokens # 0
     /\ LastOf(consumed).Response.Usage.OutputTokens # 0)
    => /\ ret.usage.PromptTokens = LastOf(consumed).Response.Usage.InputTokens
       /\ ret.usage.CompletionTokens = LastOf(consumed).Response.Usage.OutputTokens

\* the finish_reason the Chat dialect documents for a backend status
DocumentedFinishReason(status) ==
    CASE status = "completed" -> "stop"
      [] status = "incomplete" -> "length"
      [] status = "failed" -> "error"
      [] status = "cancelled" -> "stop"
      [] OTHER -> "stop"

\* a step of a stream handler's scanner callback: one more frame consumed
ConsumesFrame == pc = "streaming" /\ Len(consumed') = Len(consumed) + 1

\* the frame that step consumed
FrameConsumed == consumed'[Len(consumed')]

\* the frames that step wrote
FramesWritten == SubSeq(emitted', Len(emitted) + 1, Len(emitted'))

\* C11: for the Chat target the finish_reason produced from a backend status
\* is completed -> stop, incomplete -> length, failed -> error, cancelled ->
\* stop, anything else -> stop, in the chunk the stream converter produces for
\* its terminal event and in the response the non-streaming handler writes.
C11_ChatFinishReason ==
    [][/\ (/\ ConsumesFrame
           /\ handler = ChatStream
           /\ Parsed(FrameConsumed)
           /\ FrameConsumed.Type = "response.done"
           /\ FrameConsumed.Response.present)
          => /\ Len(FramesWritten) = 1
             /\ FramesWritten[1].reason =
                    DocumentedFinishReason(FrameConsumed.Response.Status)
       /\ (/\ pc = "invoke"
           /\ handler' = ChatBody
           /\ ret'.err = "none"
           /\ consumed'[1].Error = "none")
          => /\ Len(emitted') = 1
             /\ emitted'[1].reason = DocumentedFinishReason(consumed'[1].Status)]_vars

C11_Witness ==
    /\ handler = ChatStream
    /\ consumed # <<>>
    /\ LastOf(consumed) = EvDoneIncomplete
    /\ emitted # <<>>
    /\ LastOf(emitted).reason = "length"

\* C12: for the Messages target the stop_reason of the non-streaming response
\* is completed -> end_turn, incomplete -> max_tokens, failed -> error,
\* cancelled -> stop, anything else -> stop.
C12_MessagesStopReason ==
    (/\ pc = "done"
     /\ handler \in {OrcBody, ClcBody}
     /\ ret.err = "none"
     /\ BackendBodyRead.Error = "none")
    => /\ Len(emitted) = 1
       /\ emitted[1].reason = DocumentedStopReason(BackendBodyRead.Status)

\* the stop reason the non-streaming assembler of the stream handler's package
\* produces for a response with the status
AssembledStopReason(h, status) ==
    LET b == BackendBody(TRUE, TRUE, status, "none", NoUsage, <<>>)
    IN  IF h = OrcStream
            THEN ResponsesToClaudeResponse("first", b).reason
            ELSE ResponsesToClaudeMessagesResponse(b).reason

\* C13: for every backend status, the stop_reason of the message_delta frame
\* a Responses-to-Messages stream handler writes for a terminal event with
\* that status equals the stop_reason the non-streaming assembler produces
\* for a response with that status.
C13_SameStopReasonOnBothPaths ==
    [][(/\ ConsumesFrame
        /\ handler \in MessagesStreams
        /\ Parsed(FrameConsumed)
        /\ FrameConsumed.Type \in {"response.done", "response.completed"}
        /\ FrameConsumed.Response.present)
       => \A i \in 1..Len(FramesWritten) :
              FramesWritten[i].type = "message_delta" =>
                  FramesWritten[i].reason =
                      AssembledStopReason(handler, FrameConsumed.Response.Status)]_vars

\* the event types the handler h converts to a delta frame when the delta is
\* not empty, by the case labels of its code
TextDeltaTypes(h, b) ==
    CASE h = ClcStream -> {"response.output_text.delta", "response.content_part.delta"}
      [] h = ChatStream /\ b = "second" -> {"response.content_part.delta"}
      [] OTHER -> {"response.output_text.delta"}

\* the frames among fs that carry text to the caller
RECURSIVE DeltaFramesOf(_)
DeltaFramesOf(fs) ==
    IF fs = <<>>
        THEN <<>>
        ELSE (IF Head(fs).text # "" THEN <<Head(fs)>> ELSE <<>>) \o DeltaFramesOf(Tail(fs))

\* C14: every text-delta event (here with a non-empty delta) a stream handler
\* processes appends its delta to the accumulated text and writes exactly one
\* delta frame carrying that delta at content-block index 0; every
\* content_block_start, content_block_delta and content_block_stop frame
\* written has index 0.
C14_DeltaAppendedAndEmitted ==
    [][/\ (/\ ConsumesFrame
           /\ handler \in StreamHandlers
           /\ Parsed(FrameConsumed)
           /\ FrameConsumed.Type \in TextDeltaTypes(handler, build)
           /\ FrameConsumed.Delta # "")
          => /\ responseText' = responseText \o FrameConsumed.Delta
             /\ Len(DeltaFramesOf(FramesWritten)) = 1
             /\ DeltaFramesOf(FramesWritten)[1].text = FrameConsumed.Delta
             /\ DeltaFramesOf(FramesWritten)[1].index = 0
       /\ \A i \in 1..Len(emitted') :
              emitted'[i].type \in {"content_block_start", "content_block_delta",
                                    "content_block_stop"}
                  => emitted'[i].index = 0]_vars

\* the text the frames fs carry to the caller, in the order written
RECURSIVE WrittenText(_)
WrittenText(fs) ==
    IF fs = <<>> THEN "" ELSE Head(fs).text \o WrittenText(Tail(fs))

\* the deltas of the parsed text-delta events among evs, in arrival order
RECURSIVE ArrivedText(_, _)
ArrivedText(evs, types) ==
    IF evs = <<>>
        THEN ""
        ELSE (IF Parsed(Head(evs)) /\ Head(evs).Type \in types
                  THEN Head(evs).Delta ELSE "")
                 \o ArrivedText(Tail(evs), types)

\* C15: the frames written preserve the arrival order of the source events:
\* a step only appends to what was written, frames are written only in the
\* step that consumes a source frame (none is held back for a later step or
\* for the end of the stream), and the text written is the text of the
\* converted delta events in their arrival order.
C15_ArrivalOrderPreserved ==
    [][/\ emitted' # emitted =>
              /\ ConsumesFrame
              /\ Len(emitted') > Len(emitted)
              /\ SubSeq(emitted', 1, Len(emitted)) = emitted
       /\ handler \in StreamHandlers =>
              WrittenText(emitted') =
                  ArrivedText(consumed', TextDeltaTypes(handler, build))]_vars

C15_Witness ==
    /\ handler = OrcStream
    /\ consumed = <<EvCreated, EvDeltaThere, EvDeltaHi>>
    /\ Len(emitted) = 4
    /\ emitted[3].text = " there"
    /\ emitted[4].text = "Hi"

\* a parsed event that carries a response identifier
CarriesID(f) == Parsed(f) /\ f.Response.present /\ f.Response.ID # ""

\* how many frames of fs have the type
RECURSIVE CountType(_, _)
CountType(fs, type) ==
    IF fs = <<>>
        THEN 0
        ELSE (IF Head(fs).type = type THEN 1 ELSE 0) + CountType(Tail(fs), type)

\* C16: in a Responses-to-Messages stream the first event carrying a response
\* identifier makes the handler write message_start immediately followed by
\* content_block_start with index 0 and set the message-start-sent flag, and
\* message_start and content_block_start are each written at most once per
\* stream, whatever the backend sends.
C16_MessageStartOnce ==
    [][(handler \in MessagesStreams) =>
         (/\ (/\ ConsumesFrame
              /\ CarriesID(FrameConsumed)
              /\ \A i \in 1..Len(consumed) : ~CarriesID(consumed[i]))
             => /\ Len(FramesWritten) >= 2
                /\ FramesWritten[1].type = "message_start"
                /\ FramesWritten[2].type = "content_block_start"
                /\ FramesWritten[2].index = 0
                /\ messageStartSent'
          /\ CountType(emitted', "message_start") <= 1
          /\ CountType(emitted', "content_block_start") <= 1)]_vars

\* the event types some converter names
HandledTypes ==
    {"response.created", "response.output_item.added", "response.output_text.delta",
     "response.content_part.delta", "response.output_item.done", "response.done",
     "response.completed"}

\* a step that processes a parsed event of a type no converter names
ConsumesUnknownEvent ==
    /\ ConsumesFrame
    /\ handler \in StreamHandlers
    /\ Parsed(FrameConsumed)
    /\ FrameConsumed.Type \notin HandledTypes

\* C17 as stated: a parsed event of a type the mapper does not handle writes
\* no frame and leaves the message-start-sent flag, the accumulated text and
\* the usage counter as they were.
C17_UnknownEventIgnored ==
    [][ConsumesUnknownEvent =>
          /\ FramesWritten = <<>>
          /\ UNCHANGED <<messageStartSent, responseText, usage>>]_vars

\* C17 as amended: such an event leaves the accumulated text and the usage
\* counter as they were and writes no frame, except in the openai_responses
\* Messages handler when the event carries a response id and message_start
\* has not been sent: there it writes message_start and content_block_start
\* (index 0) and sets the flag; the two openai_responses handlers also record
\* the response id the event carries.
C17_UnknownEventOnlyStarts ==
    [][ConsumesUnknownEvent =>
          /\ UNCHANGED <<responseText, usage>>
          /\ IF handler = OrcStream /\ CarriesID(FrameConsumed) /\ ~messageStartSent
                 THEN /\ Len(FramesWritten) = 2
                      /\ FramesWritten[1].type = "message_start"
                      /\ FramesWritten[2].type = "content_block_start"
                      /\ FramesWritten[2].index = 0
                      /\ messageStartSent'
                 ELSE /\ FramesWritten = <<>>
                      /\ UNCHANGED messageStartSent
          /\ responseID' = IF handler # ClcStream /\ CarriesID(FrameConsumed)
                               THEN FrameConsumed.Response.ID
                               ELSE responseID]_vars

C17_Witness ==
    /\ handler = OrcStream
    /\ consumed = <<EvReasoningDelta, EvInProgress>>
    /\ Len(emitted) = 2
    /\ messageStartSent
    /\ responseText = ""

\* C18: a frame that cannot be parsed is skipped: the step that consumes it
\* writes nothing, leaves the response id, the message-start-sent flag, the
\* accumulated text and the usage counter as they were and keeps the stream
\* open, so the frames after it are handled from the state the frames before
\* it left; and the handler's return after the stream carries no error.
C18_UnparseableFrameSkipped ==
    [][/\ (ConsumesFrame /\ handler \in StreamHandlers /\ ~FrameConsumed.ok)
             => /\ FramesWritten = <<>>
                /\ UNCHANGED <<responseID, messageStartSent, responseText, usage>>
                /\ pc' = "streaming"
                /\ ret' = ret
       /\ (pc = "streaming" /\ pc' = "done" /\ handler \in StreamHandlers)
             => /\ ret'.err = "none"
                /\ ret'.usage # NoUsage \/ (responseText = "" /\ info.PromptTokens = 0)]_vars

C18_Witness ==
    /\ pc = "done"
    /\ handler \in StreamHandlers
    /\ consumed = <<EvCreated, MalformedDelta, EvDeltaHi>>
    /\ responseText = "Hi"
    /\ Len(emitted) > 0
    /\ LastOf(emitted).type \in {"content_block_delta", "chat.completion.chunk"}
    /\ ret.err = "none"

\* the events the Chat dialect documents as terminal
ChatTerminalTypes == {"response.done", "response.completed"}

\* C19: in the Chat stream, a terminal event (response.done or
\* response.completed, carrying a response) writes exactly one chunk, whose
\* finish_reason is the documented mapping of the response status and which
\* carries the event's usage; a chunk written for any other event carries no
\* finish_reason.
C19_ChatTerminalChunk ==
    [][(ConsumesFrame /\ handler = ChatStream /\ FrameConsumed.ok) =>
          IF FrameConsumed.Type \in ChatTerminalTypes /\ FrameConsumed.Response.present
              THEN /\ Len(FramesWritten) = 1
                   /\ FramesWritten[1].reason
                        = DocumentedFinishReason(FrameConsumed.Response.Status)
                   /\ FramesWritten[1].usage = FrameConsumed.Response.Usage
              ELSE \A i \in 1..Len(FramesWritten) : FramesWritten[i].reason = ""]_vars

\* the handler has returned to DoResponse
Returned == ret.err # "pending"

\* C20: every reverse-translation handler closes the response body it was
\* given on every exit path: whenever one of the six handlers has returned,
\* with or without an error, a body that was there is closed.
C20_BodyClosedOnEveryExit ==
    (Returned /\ handler \in StreamHandlers \cup BodyHandlers /\ body # "nil")
        => body = "closed"

C20_Witness ==
    /\ Returned
    /\ handler = OrcBody
    /\ ret.err = "bad_response_body"
    /\ emitted = <<>>
    /\ body = "closed"

\* the router has returned
RouterReturns == pc = "route" /\ pc' # "route"

\* the router returned a request translated to the Responses dialect
Translated(out) == out.err = "none" /\ out.body = "responses_request"

\* C21: after a successful smart-routing translation the request context
\* holds the converted-from marker set to true and the original request under
\* the matching key, and info.RelayMode is the Responses mode; a router call
\* changes info.RelayMode only when its translation succeeded.
C21_SuccessfulTranslationRecorded ==
    [][RouterReturns =>
          /\ Translated(converted') =>
                /\ info'.RelayMode = RelayModeResponses
                /\ IF adaptor = "openai_responses" /\ entry = "ConvertOpenAIRequest"
                       THEN /\ ctx'.converted_from_chat = "true"
                            /\ ctx'.original_chat_request = "*dto.GeneralOpenAIRequest"
                       ELSE /\ ctx'.converted_from_claude = "true"
                            /\ ctx'.original_claude_request
                                 = IF adaptor = "claude" THEN "*dto.GeneralOpenAIRequest"
                                                         ELSE "*dto.ClaudeRequest"
          /\ info'.RelayMode # info.RelayMode => Translated(converted')]_vars

C21_Witness ==
    /\ pc = "respond"
    /\ adaptor = "openai_responses"
    /\ entry = "ConvertClaudeRequest"
    /\ Translated(converted)
    /\ ctx.converted_from_claude = "true"
    /\ ctx.original_claude_request = "*dto.ClaudeRequest"
    /\ info.RelayMode = RelayModeResponses

\* the translator has returned
HasTranslated == pc = "translated"

\* the messages of role system, as indexes into the list
SystemIndexes(messages) == {i \in 1..Len(messages) : messages[i].Role = "system"}

\* the first system message is at index i
IsFirstSystem(messages, i) ==
    i \in SystemIndexes(messages) /\ \A j \in SystemIndexes(messages) : i <= j

\* an encoding step of the translation fails: the system text (the first
\* system message, or the system field), the content of a message that
\* becomes an input item, or the tools
EncodingStepFails(t, req) ==
    \/ ~req.encodable
    \/ t = Translator.Orc /\ req.System.kind = "unencodable"
    \/ \E i \in 1..Len(req.Messages) :
          /\ req.Messages[i].Content.kind = "unencodable"
          /\ \/ t = Translator.Orc
             \/ req.Messages[i].Role # "system"
             \/ IsFirstSystem(req.Messages, i)

\* an error and no request object
ReturnsNoRequest(out) ==
    /\ out.err \notin {"none", "pending"}
    /\ out.body = "none"
    /\ DOMAIN out = {"body", "err"}

\* C22: every request translator returns an error and no request object when
\* the source request is nil or its model is empty, and returns no request,
\* partial or whole, whenever a step of the translation fails.
C22_FailedTranslationReturnsNoRequest ==
    HasTranslated =>
        ((request.nil \/ request.Model = "" \/ EncodingStepFails(entry, request))
            => ReturnsNoRequest(converted))

\* the messages that become input items
NonSystem(messages) == SelectSeq(messages, LAMBDA m : m.Role # "system")

\* the encoded text t is the text orig, as it is or sanitized
SameText(t, orig) == t \in {jsonMarshalString(orig), cleanInvalidUTF8Chars(orig)}

\* the encoded content c is the content orig
CarriesContent(c, orig) ==
    IF orig.kind = "string"
        THEN c.kind = "string" /\ SameText(c.text, orig.text)
        ELSE c = orig

\* the instructions are a JSON value made from the system content orig: a
\* JSON string holding its text, or the encoding of a structured content
InstructionsFrom(instr, orig) ==
    /\ instr.present
    /\ IF orig.kind = "string"
           THEN /\ instr.encoding = "json_string"
                /\ instr.of.kind = "string"
                /\ SameText(instr.of.text, orig.text)
           ELSE instr.of = orig

\* C23: when a request with a messages list is translated, instructions is
\* taken from the first system-role message only and is absent when there is
\* no system message (or only an empty one), and input holds exactly one item
\* per non-system message, in the original order, each with that message's
\* role and content.  Texts are compared up to sanitization.
C23_InstructionsAndInputs ==
    (HasTranslated /\ entry \in {Translator.Chat, Translator.Clc} /\ Translated(converted)) =>
        LET msgs == request.Messages
            rest == NonSystem(msgs)
        IN  /\ IF SystemIndexes(msgs) = {}
                   THEN ~converted.Instructions.present
                   ELSE LET first == msgs[CHOOSE i \in 1..Len(msgs) : IsFirstSystem(msgs, i)]
                        IN  IF first.Content = Content("string", <<>>, <<>>)
                                THEN ~converted.Instructions.present
                                ELSE InstructionsFrom(converted.Instructions, first.Content)
            /\ Len(converted.Input) = Len(rest)
            /\ \A i \in 1..Len(rest) :
                  /\ converted.Input[i].Role = rest[i].Role
                  /\ CarriesContent(converted.Input[i].Content, rest[i].Content)

\* the plain-string system text of a source request: the first system
\* message for the translators that take a message list, the system field
\* for the openai_responses Messages translator
SystemTexts(t, req) ==
    IF t = Translator.Orc
        THEN IF req.System.kind = "string" THEN {req.System.text} ELSE {}
        ELSE {req.Messages[i].Content.text :
                 i \in {j \in 1..Len(req.Messages) :
                           /\ IsFirstSystem(req.Messages, j)
                           /\ req.Messages[j].Content.kind = "string"}}

\* the text s without its invalid bytes and its control characters other
\* than CR, LF and TAB
WithoutDisallowed(s) == SelectSeq(s, LAMBDA ch : ch \notin {"BAD", "BEL"})

\* C24: for every translator, a plain-string system text that contains an
\* invalid byte sequence or a control character other than CR, LF and TAB is
\* sanitized before it is embedded in instructions: the embedded text has no
\* invalid code point and no such control character and is otherwise the
\* original text in the original order.
C24_SystemTextSanitized ==
    (HasTranslated /\ Translated(converted)) =>
        \A s \in SystemTexts(entry, request) :
            (s # WithoutDisallowed(s)) =>
                /\ converted.Instructions.present
                /\ converted.Instructions.of.kind = "string"
                /\ converted.Instructions.of.text = WithoutDisallowed(s)

\* C25: the text validity check returns true if and only if every code point
\* of the text is valid and the text holds no control character other than
\* CR, LF and TAB.
C25_ValidIffNothingDisallowed ==
    pc = "checked" => (converted.valid <=> request = WithoutDisallowed(request))

\* C26: cleanInvalidUTF8Chars is idempotent and order-preserving: cleaning a
\* cleaned text changes nothing, and the cleaned text is the text without its
\* invalid bytes and disallowed control characters, every other character
\* kept in its place.
C26_CleanIdempotentAndOrderPreserving ==
    /\ pc = "cleaned again" => request = consumed[2]
    /\ pc = "cleaned" => request = WithoutDisallowed(consumed[1])

\* the messages that become input items in the translator t
InputSources(t, messages) == IF t = Translator.Orc THEN messages ELSE NonSystem(messages)

\* the documented rewriting of a content array: the type tag of each block
\* is rewritten, everything else is kept
RewrittenBlocks(blocks) ==
    [i \in 1..Len(blocks) |->
        [blocks[i] EXCEPT !.type = CASE blocks[i].map /\ blocks[i].type = "text" -> "input_text"
                                     [] blocks[i].map /\ blocks[i].type = "image" ->
                                            "input_image"
                                     [] OTHER -> blocks[i].type]]

\* C27: when a message with structured content is translated, the translated
\* content is the same blocks in the same order, each block's type rewritten
\* text -> input_text and image -> input_image, any other type unchanged and
\* every other field kept; for every translator and every array, whatever
\* other elements it holds.
C27_BlockTypesRewritten ==
    (HasTranslated /\ Translated(converted)) =>
        LET src == InputSources(entry, request.Messages)
        IN  \A i \in 1..Len(src) :
                src[i].Content.kind = "array" =>
                    /\ i <= Len(converted.Input)
                    /\ converted.Input[i].Content
                         = Content("array", <<>>, RewrittenBlocks(src[i].Content.blocks))

\* a non-streaming handler has run its assembler on the backend body it read
Assembled == pc = "done" /\ handler \in BodyHandlers /\ ret.err = "none"

\* C28: when the backend response carries an error object, the non-streaming
\* assembler of every target dialect returns an envelope that carries that
\* error object, and no error value: the handler that called it writes the
\* envelope and returns no error.
C28_ErrorObjectInEnvelope ==
    (pc = "done" /\ handler \in BodyHandlers /\ emitted # <<>>
     /\ BackendBodyRead.Error # "none")
    => /\ emitted[1].error = BackendBodyRead.Error
       /\ ret.err = "none"

RECURSIVE TextOfBlocks(_)
\* the text of the content blocks of type output_text or text, in order
TextOfBlocks(content) ==
    IF content = <<>>
        THEN ""
        ELSE (IF Head(content).Type \in {"output_text", "text"}
                  THEN Head(content).Text ELSE "")
                 \o TextOfBlocks(Tail(content))

RECURSIVE TextOfOutput(_)
\* the text of the textual blocks of the assistant's message items, in order
TextOfOutput(output) ==
    IF output = <<>>
        THEN ""
        ELSE (IF Head(output).Type = "message" /\ Head(output).Role = "assistant"
                  THEN TextOfBlocks(Head(output).Content) ELSE "")
                 \o TextOfOutput(Tail(output))

\* C29: for a backend response without an error object, the text of the
\* assembled message is the concatenation, in output order, of the text of
\* every content block of type output_text or text inside every output item
\* of type message with role assistant; other blocks and other items
\* contribute nothing.
C29_AssembledTextIsTextualBlocks ==
    (Assembled /\ BackendBodyRead.Error = "none")
    => /\ Len(emitted) = 1
       /\ emitted[1].text = TextOfOutput(BackendBodyRead.Output)

\* a non-streaming handler has returned after it went to read the backend
\* body: the two openai_responses handlers look up the original request
\* first and return without reading when it is not there
ReadBackendBody ==
    /\ pc = "done"
    /\ handler \in BodyHandlers
    /\ (handler = OrcBody) => ctx.original_claude_request = "*dto.ClaudeRequest"
    /\ (handler = ChatBody) => ctx.original_chat_request = "*dto.GeneralOpenAIRequest"

\* the backend body carries a structured error object
UpstreamError(b) == b.readable /\ b.parses /\ b.Error # "none"

MessagesFraming(frame) == <<<<"event", frame.type>>, <<"data", frame>>>>

\* the line written for a Chat-dialect frame
ChatFraming(frame) == <<<<"data", frame>>>>

\* the lines the writer calls of one frame write, before the last call
LinesOf(calls) ==
    [i \in 1..(Len(calls) - 1) |-> <<calls[i].line, calls[i].of>>]

\* the last writer call of a frame is its only flush
FlushedOnce(calls) ==
    /\ Len(calls) > 0
    /\ calls[Len(calls)].call = "Flush"
    /\ \A i \in 1..(Len(calls) - 1) : calls[i].call # "Flush"

\* C31: every frame written to a Messages-dialect caller during a translated
\* stream is written as an event line naming the frame's type followed by a
\* data line with the body, and the writer is flushed right after each frame;
\* a Chat-dialect frame is a data line only, flushed after each frame.
C31_FramingAndFlush ==
    (handler \in StreamHandlers)
    => \A i \in 1..Len(emitted) :
           LET calls == sendStreamData(handler, emitted[i])
           IN  /\ FlushedOnce(calls)
               /\ LinesOf(calls) = IF handler = ChatStream
                                       THEN ChatFraming(emitted[i])
                                       ELSE MessagesFraming(emitted[i])

\* a stream handler has returned after its scanner loop
StreamEnded == pc = "done" /\ handler \in StreamHandlers /\ body = "closed"

\* no terminal event, response.done or response.completed, was received
NoTerminalEvent ==
    \A i \in 1..Len(consumed) : consumed[i].Type \notin {"response.done", "response.completed"}

\* a frame that ends the message: message_delta, message_stop, or a chunk
\* with a finish reason
IsTerminalFrame(fr) ==
    \/ fr.type \in {"message_delta", "message_stop"}
    \/ fr.type = "chat.completion.chunk" /\ fr.reason # ""

CountsToolCall(f) ==
    /\ f.ok
    /\ f.Type = "response.output_item.done"
    /\ f.Item.present
    /\ f.Item.Type = "web_search_call"
    /\ info.BuiltInTools.present
    /\ info.BuiltInTools.web_search_preview.registered

\* C33: in the Responses-to-Chat stream handler, each response.output_item.done
\* event whose item is a recognised built-in tool call adds exactly one to the
\* call counter of that tool type; an event with an unrecognised item type,
\* or one that arrives when no counter is registered for the tool, leaves
\* every counter as it was; in both cases the stream goes on.
C33_ToolCallCounted ==
    [][(ConsumesFrame /\ handler = ChatStream)
       => /\ pc' = "streaming"
          /\ IF CountsToolCall(FrameConsumed)
               THEN /\ info'.BuiltInTools.web_search_preview.CallCount
                           = info.BuiltInTools.web_search_preview.CallCount + 1
                    /\ info'.BuiltInTools.file_search = info.BuiltInTools.file_search
               ELSE info'.BuiltInTools = info.BuiltInTools]_vars

\* two web search calls were counted, and a file search item and an ordinary
\* message item went by uncounted
C33_Witness ==
    /\ handler = ChatStream
    /\ info.BuiltInTools.web_search_preview.CallCount = 2
    /\ info.BuiltInTools.file_search.CallCount = 0
    /\ Len(consumed) = 3

\* every message of the request, and its system field, has plain-text content
PlainTextOnly(req) ==
    /\ req.System.kind \in {"nil", "string"}
    /\ \A i \in 1..Len(req.Messages) : req.Messages[i].Content.kind = "string"

\* the inverse translation of an encoded content: json.Unmarshal of a JSON
\* string gives back the text the string holds; anything else is no text
TextPayload(c) == IF c.kind = "string" THEN <<c.text>> ELSE <<>>

\* the inverse translation of the instructions field
InstructionsPayload(instr) ==
    IF instr.present /\ instr.encoding = "json_string" THEN TextPayload(instr.of) ELSE <<>>

\* the input items carry, in order, the texts of the messages that become items
InputsRoundTrip(t, req, out) ==
    LET src == InputSources(t, req.Messages)
    IN  /\ Len(out.Input) = Len(src)
        /\ \A i \in 1..Len(src) : TextPayload(out.Input[i].Content) = <<src[i].Content.text>>

\* the instructions carry the text of every system message, or of the system
\* field; an empty text is carried by a request without instructions too
SystemRoundTrip(t, req, out) ==
    LET Carried(text) ==
            \/ InstructionsPayload(out.Instructions) = <<text>>
            \/ text = <<>> /\ ~out.Instructions.present
    IN  IF t = Translator.Orc
            THEN (req.System.kind = "string") => Carried(req.System.text)
            ELSE \A i \in SystemIndexes(req.Messages) :
                     Carried(req.Messages[i].Content.text)

\* C34: for a message list whose messages all have plain-text content,
\* translating the request to the Responses dialect and then decoding the
\* translated request gives back the text of every message exactly.
C34_PlainTextRoundTrip ==
    (HasTranslated /\ Translated(converted) /\ PlainTextOnly(request))
    => /\ InputsRoundTrip(entry, request, converted)
       /\ SystemRoundTrip(entry, request, converted)

\* C35: a router call that fails to translate (it returns an error, or the
\* Claude adaptor falls back to the native conversion) leaves the request
\* context and the relay info as they were before the call: no converted-from
\* marker is set, no original request is stored, info.RelayMode is unchanged.
C35_FailedRouterLeavesNoTrace ==
    [][(RouterReturns /\ ~Translated(converted'))
       => /\ ctx' = ctx
          /\ info' = info]_vars

\* C36: in a Responses-to-Messages stream, whatever the backend events are
\* (terminal events repeated, text deltas after a terminal event),
\* message_stop is written at most once and no frame is written after it.
C36_MessageStopOnceAndLast ==
    (handler \in MessagesStreams)
    => \A i \in 1..Len(emitted) :
           (emitted[i].type = "message_stop") => i = Len(emitted)

\* C37: in a Responses-to-Messages stream, whatever the backend events are, no
\* content_block_delta, content_block_stop, message_delta or message_stop
\* frame is written before message_start and content_block_start have been
\* written.
C37_NoFrameBeforeStart ==
    (handler \in MessagesStreams)
    => \A i \in 1..Len(emitted) :
           (emitted[i].type \in {"content_block_delta", "content_block_stop",
                                 "message_delta", "message_stop"})
           => /\ \E j \in 1..(i - 1) : emitted[j].type = "message_start"
              /\ \E j \in 1..(i - 1) : emitted[j].type = "content_block_start"

\* C38: in every stream handler, after any sequence of backend frames, the
\* output text accumulated for the fallback token count is the concatenation,
\* in order, of the text of all the delta frames written to the caller so
\* far: no event has its text written without being accumulated, or
\* accumulated without being written.
C38_AccumulatedTextIsWrittenText ==
    (handler \in StreamHandlers /\ pc \in {"streaming", "done"})
    => responseText = WrittenText(emitted)

\* C39: in the Claude channel adaptor, once ConvertOpenAIRequest has
\* translated a request to the Responses dialect (marker set, info.RelayMode
\* switched to Responses), GetRequestURL for that request returns the
\* Responses endpoint, base URL + /v1/responses, never the /v1/messages or
\* the /v1/complete endpoint.
C39_TranslatedRequestGoesToResponses ==
    (/\ adaptor = "claude"
     /\ entry = "ConvertOpenAIRequest"
     /\ pc = "respond"
     /\ Translated(converted)
     /\ ctx.converted_from_claude = "true"
     /\ info.RelayMode = RelayModeResponses)
    => \A beta \in BOOLEAN :
           ClaudeGetRequestURL(RequestMode, beta) = [path |-> "/v1/responses", query |-> ""]

\* the errors of a failed lookup of the original request
LookupErrors ==
    {"original claude request not found", "original chat request not found",
     "original claude request not found in context", "invalid original request type"}

\* C40: within one adaptor, whenever DoResponse dispatches a non-streaming
\* reverse translator because a converted-from marker was set by that
\* adaptor's router, the handler finds the original request with the type it
\* expects: it never fails with "original request not found" or "invalid
\* original request type"; and at most one of the markers converted_from_chat
\* and converted_from_claude is set for a request.
C40_OriginalRequestFound ==
    /\ ~(ctx.converted_from_chat = "true" /\ ctx.converted_from_claude = "true")
    /\ (pc = "done" /\ handler \in BodyHandlers)
       => /\ ret.err \notin LookupErrors
          /\ CASE handler = ChatBody ->
                      ctx.original_chat_request = "*dto.GeneralOpenAIRequest"
               [] handler = OrcBody -> ctx.original_claude_request = "*dto.ClaudeRequest"
               [] handler = ClcBody ->
                      ctx.original_claude_request = "*dto.GeneralOpenAIRequest"

\* the Chat reverse translator was dispatched after the router's translation
\* and assembled a response from the original request it found
C40_Witness ==
    /\ pc = "done"
    /\ handler = ChatBody
    /\ ctx.converted_from_chat = "true"
    /\ ret.err = "none"
    /\ emitted # <<>>

====
